---- MODULE Spec2Model ----
(***************************************************************************)
(* Bee hive simulator: the colony coordinator (hive.js), the cell          *)
(* lifecycle (cell.js), the agent behaviour engine (bee.js), the hex-grid  *)
(* utilities (utils.js) and the path cache (performance-optimizer.js).     *)
(*                                                                         *)
(* Units.  Times (deltaTime, ages, timers, development times) are integer  *)
(* half-seconds, so that the half-speed ageing of hungry larvae stays      *)
(* integral.  contentAmount is in tenths of a unit (consumption steps are  *)
(* 0.2 and 0.5).  moveProgress is in quarters of a cell (the per-frame cap *)
(* is 0.25).  A Math.random() gate is a nondeterministic choice; a random  *)
(* real interval is sampled at its two ends.                               *)
(***************************************************************************)
EXTENDS Integers, Sequences, FiniteSets, TLC

VARIABLES
    config,              \* the static configuration object (never changes)
    cells,               \* Hive.cells: (q,r) -> cell record
    bees,                \* Hive.bees: list of bee records
    queen,               \* Hive.queen: id of the queen bee, 0 for null
    emergencyQueenCell,  \* Hive.emergencyQueenCell: a cell or NoCell
    simulationTime,      \* Hive.simulationTime
    currentDate,         \* Hive.currentDate
    lastSummaryDay,      \* Hive.lastSummaryDay
    currentDaySummary,   \* Hive.currentDaySummary
    dailySummaries,      \* Hive.dailySummaries
    temperature,         \* Hive.temperature (level)
    foragingHistory,     \* Hive.foragingHistory
    pathCache,           \* Hive.pathfindingCache.cache (insertion ordered)
    lastCall,            \* observation of the last operation performed
    designated           \* history: larva cells named as emergencyQueenCell

vars == <<config, cells, bees, queen, emergencyQueenCell, simulationTime,
          currentDate, lastSummaryDay, currentDaySummary, dailySummaries,
          temperature, foragingHistory, pathCache, lastCall, designated>>

----------------------------------------------------------------------------
(* Bounds of the model *)

MaxTime == 30          \* ticks are taken while simulationTime < MaxTime
MaxInvalidTime == 4    \* invalid calls are tried while simulationTime is below
PathCacheSize == 2     \* PathfindingCache.maxSize (200 in hive.js) scaled down
MaxStanding == 4       \* bees standing in the hive in the path specification
MaxCorpses == 3        \* dead bees lying in one cell in the cell specification
MaxLongTime == 1440    \* accelerated ticks are taken while simulationTime is below
MaxNightTime == 420    \* night ticks are taken while simulationTime is below
MaxUndertakeTime == 30 \* half-second ticks are taken while simulationTime is below
MaxBroodTime == 56     \* brood ticks are taken while simulationTime is below
MaxCacheCalls == 4     \* set calls made on the cache in the cache specification

----------------------------------------------------------------------------
(* Values *)

NoCell == <<>>
NoPath == <<>>
Infinity == 1000000

\* the number NaN, which no comparison of JavaScript holds for; it is what a
\* product with a key the configuration does not have evaluates to
NaN == 1000001

Min(a, b) == IF a < b THEN a ELSE b
Max(a, b) == IF a > b THEN a ELSE b
Abs(a) == IF a < 0 THEN -a ELSE a

SeqToSet(s) == {s[k] : k \in 1..Len(s)}

\* floor(sqrt(n)) by bisection, with lo * lo <= n < hi * hi
RECURSIVE ISqrtBetween(_, _, _)
ISqrtBetween(n, lo, hi) ==
    IF hi - lo <= 1 THEN lo
    ELSE LET mid == (lo + hi) \div 2
         IN  IF mid * mid <= n THEN ISqrtBetween(n, mid, hi)
             ELSE ISqrtBetween(n, lo, mid)

\* Math.sqrt, rounded down, for values scaled to keep three decimals
ISqrt(n) == ISqrtBetween(n, 0, Min(n + 1, 46341))

\* CellState (cell.js), BeeType and BeeTask (bee.js)
CellState ==
    [EMPTY |-> "empty", EGG |-> "egg", LARVAE_HUNGRY |-> "larvaeHungry",
     LARVAE_FED |-> "larvaeFed", CAPPED_BROOD |-> "cappedBrood",
     NECTAR |-> "nectar", HONEY |-> "honey",
     HONEY_COMPLETE |-> "honeyComplete", HONEY_CAPPED |-> "honeyCapped",
     POLLEN |-> "pollen", BEE_BREAD |-> "beeBread", WATER |-> "water"]

BeeType ==
    [QUEEN |-> "queen", WORKER |-> "worker"]

BeeTask ==
    [IDLE |-> "idle", FORAGING |-> "foraging", NURSING |-> "nursing",
     FEEDING_QUEEN |-> "feedingQueen", STORING_FOOD |-> "storingFood",
     RETURNING |-> "returning", CLEANING |-> "cleaning",
     CAPPING_HONEY |-> "cappingHoney", UNDERTAKING |-> "undertaking",
     ATTENDING_QUEEN |-> "attendingQueen",
     WATER_COLLECTION |-> "waterCollection",
     TEMPERATURE_REGULATION |-> "temperatureRegulation",
     COLLECTING_FOOD |-> "collectingFood"]

----------------------------------------------------------------------------
(* Grid (Hive.initializeCells, Hive.initializeEntrances, utils.js) *)

Columns == config.columns
Rows == config.rows

Cells == (0..(Columns - 1)) \X (0..(Rows - 1))

\* iteration order of this.cells.values(): rows outer, columns inner
CellOrder == [k \in 1..(Columns * Rows) |->
                <<(k - 1) % Columns, (k - 1) \div Columns>>]

CellIndex(c) == c[2] * Columns + c[1] + 1

EntranceCells ==
    LET count == config.entranceCount
        side == config.entranceSide
        startCol == (Columns - count) \div 2
        startRow == (Rows - count) \div 2
    IN  CASE side = "bottom" -> [i \in 1..count |-> <<startCol + i - 1, Rows - 1>>]
          [] side = "top" -> [i \in 1..count |-> <<startCol + i - 1, 0>>]
          [] side = "left" -> [i \in 1..count |-> <<0, startRow + i - 1>>]
          [] side = "right" -> [i \in 1..count |-> <<Columns - 1, startRow + i - 1>>]
          [] OTHER -> <<>>

isEntranceCell(c) == c \in SeqToSet(EntranceCells)

getHexNeighbors(c) ==
    LET col == c[1]
        row == c[2]
    IN  IF col % 2 = 0
        THEN << <<col + 1, row>>, <<col + 1, row - 1>>, <<col, row - 1>>,
                <<col - 1, row - 1>>, <<col - 1, row>>, <<col, row + 1>> >>
        ELSE << <<col + 1, row + 1>>, <<col + 1, row>>, <<col, row - 1>>,
                <<col - 1, row>>, <<col - 1, row + 1>>, <<col, row + 1>> >>

distance(a, b) ==
    (Abs(a[1] - b[1]) + Abs(a[1] + a[2] - b[1] - b[2]) + Abs(a[2] - b[2])) \div 2

\* stable ascending sort of a list of records on their integer field "key"
\* (Array.prototype.sort with a numeric comparator)
RECURSIVE InsertSorted(_, _)
InsertSorted(s, x) ==
    IF s = <<>> THEN <<x>>
    ELSE IF x.key < Head(s).key THEN <<x>> \o s
         ELSE <<Head(s)>> \o InsertSorted(Tail(s), x)

RECURSIVE SortByKey(_)
SortByKey(s) ==
    IF s = <<>> THEN <<>>
    ELSE InsertSorted(SortByKey(SubSeq(s, 1, Len(s) - 1)), s[Len(s)])

----------------------------------------------------------------------------
(* Cell (cell.js) *)

NewCell == [state |-> CellState.EMPTY, developmentTime |-> 0, maxDevelopmentTime |-> 0,
            contentAmount |-> 0, isDirty |-> FALSE, deadBeeCount |-> 0,
            occupyingBees |-> 0]

maxBeesPerCell == config.maxBeesPerCell

isEmpty(c) == c.state = CellState.EMPTY
isOccupied(c) == c.occupyingBees > 0
isFull(c) == c.occupyingBees >= maxBeesPerCell
isBrood(c) == c.state \in {CellState.EGG, CellState.LARVAE_HUNGRY, CellState.LARVAE_FED, CellState.CAPPED_BROOD}
isFood(c) == c.state \in {CellState.NECTAR, CellState.HONEY, CellState.HONEY_COMPLETE, CellState.HONEY_CAPPED,
                          CellState.POLLEN, CellState.BEE_BREAD, CellState.WATER}
hasDeadBee(c) == c.deadBeeCount > 0

\* each of these returns the cell after the call
setEgg(c) ==
    IF isEmpty(c) /\ c.deadBeeCount = 0 /\ ~c.isDirty
    THEN [c EXCEPT !.state = CellState.EGG, !.developmentTime = 0,
                   !.maxDevelopmentTime = config.eggDuration]
    ELSE c

addDeadBee(c) == [c EXCEPT !.deadBeeCount = @ + 1]

\* a removal that does not test for a corpse
removeDeadBeeUnchecked(c) == [c EXCEPT !.deadBeeCount = @ - 1]

removeDeadBee(c) ==
    IF c.deadBeeCount > 0 THEN [c EXCEPT !.deadBeeCount = @ - 1] ELSE c

addFood(c, kind, amount, cap) ==
    IF isEmpty(c) THEN [c EXCEPT !.state = kind, !.contentAmount = amount]
    ELSE IF c.state = kind /\ c.contentAmount < cap
         THEN [c EXCEPT !.contentAmount = Min(cap, @ + amount)]
         ELSE c

addNectar(c, amount) == addFood(c, CellState.NECTAR, amount, 100)
addPollen(c, amount) == addFood(c, CellState.POLLEN, amount, 100)
addWater(c, amount) == addFood(c, CellState.WATER, amount, 50)

consume(c, states, amount) ==
    IF c.state \in states
    THEN IF c.contentAmount = NaN THEN c
         ELSE IF c.contentAmount - amount <= 0
              THEN [c EXCEPT !.state = CellState.EMPTY, !.contentAmount = 0]
              ELSE [c EXCEPT !.contentAmount = @ - amount]
    ELSE c

consumeHoney(c, amount) == consume(c, {CellState.HONEY, CellState.HONEY_COMPLETE}, amount)
consumePollen(c, amount) == consume(c, {CellState.POLLEN, CellState.BEE_BREAD}, amount)
consumeWater(c, amount) == consume(c, {CellState.WATER}, amount)

clean(c) == IF isEmpty(c) /\ c.isDirty THEN [c EXCEPT !.isDirty = FALSE] ELSE c

capHoney(c) ==
    IF c.state = CellState.HONEY_COMPLETE THEN [c EXCEPT !.state = CellState.HONEY_CAPPED] ELSE c

\* a feeding that starts the larva's development over
feedLarvaeRestart(c) ==
    IF c.state = CellState.LARVAE_HUNGRY
    THEN [c EXCEPT !.state = CellState.LARVAE_FED, !.developmentTime = 0]
    ELSE c

feedLarvae(c) ==
    IF c.state = CellState.LARVAE_HUNGRY THEN [c EXCEPT !.state = CellState.LARVAE_FED] ELSE c

\* the values returned by Cell.clean and Cell.removeDeadBee
cleanReturns(c) == isEmpty(c) /\ c.isDirty
removeDeadBeeReturns(c) == c.deadBeeCount > 0

\* a brood update in which a hungry larva waits for its meal: it ages but is
\* not capped before a nurse has fed it
CellUpdateBroodWaits(c, deltaTime) ==
    LET dev == c.developmentTime +
                 (IF c.state = CellState.LARVAE_HUNGRY THEN deltaTime \div 2 ELSE deltaTime)
    IN  IF dev >= c.maxDevelopmentTime /\ c.state # CellState.LARVAE_HUNGRY
        THEN CASE c.state = CellState.EGG ->
                    [cell |-> [c EXCEPT !.developmentTime = 0, !.state = CellState.LARVAE_HUNGRY,
                                 !.maxDevelopmentTime = config.larvaeDuration],
                     emerge |-> FALSE]
               [] c.state = CellState.LARVAE_FED ->
                    [cell |-> [c EXCEPT !.developmentTime = 0, !.state = CellState.CAPPED_BROOD,
                                 !.maxDevelopmentTime = config.pupaDuration],
                     emerge |-> FALSE]
               [] OTHER ->
                    [cell |-> [c EXCEPT !.developmentTime = 0], emerge |-> TRUE]
        ELSE [cell |-> [c EXCEPT !.developmentTime = dev], emerge |-> FALSE]

\* the brood branch of Cell.update: the aged cell and whether it emerges
CellUpdateBrood(c, deltaTime) ==
    LET dev == c.developmentTime +
                 (IF c.state = CellState.LARVAE_HUNGRY THEN deltaTime \div 2 ELSE deltaTime)
    IN  IF dev >= c.maxDevelopmentTime
        THEN CASE c.state = CellState.EGG ->
                    [cell |-> [c EXCEPT !.developmentTime = 0, !.state = CellState.LARVAE_HUNGRY,
                                 !.maxDevelopmentTime = config.larvaeDuration],
                     emerge |-> FALSE]
               [] c.state \in {CellState.LARVAE_HUNGRY, CellState.LARVAE_FED} ->
                    [cell |-> [c EXCEPT !.developmentTime = 0, !.state = CellState.CAPPED_BROOD,
                                 !.maxDevelopmentTime = config.pupaDuration],
                     emerge |-> FALSE]
               [] OTHER ->
                    [cell |-> [c EXCEPT !.developmentTime = 0], emerge |-> TRUE]
        ELSE [cell |-> [c EXCEPT !.developmentTime = dev], emerge |-> FALSE]

\* the state conversions of food cells in Cell.update (one else-if chain)
CellUpdateConvert(c) ==
    CASE c.state = CellState.NECTAR -> {c, [c EXCEPT !.state = CellState.HONEY]}
      [] c.state = CellState.HONEY /\ c.contentAmount >= 80 ->
            {[c EXCEPT !.state = CellState.HONEY_COMPLETE]}
      [] c.state = CellState.POLLEN ->
            {c, [c EXCEPT !.state = CellState.BEE_BREAD,
                   !.contentAmount =
                       IF config.pollenToBeeBreadConversion = NaN THEN NaN
                       ELSE ((@ * config.pollenToBeeBreadConversion) \div 1000) * 10]}
      [] OTHER -> {c}

\* the passive consumption at the end of Cell.update
CellUpdateConsume(c) ==
    IF isFood(c) /\ c.contentAmount > 0 /\ c.contentAmount # NaN
    THEN {c} \cup
         (IF c.contentAmount - 2 <= 0
          THEN {[c EXCEPT !.state = CellState.EMPTY, !.contentAmount = 0],
                [c EXCEPT !.state = CellState.EMPTY, !.contentAmount = 0, !.isDirty = TRUE]}
          ELSE {[c EXCEPT !.contentAmount = @ - 2]})
    ELSE {c}

\* Cell.update: the set of possible (cell, result) outcomes
CellUpdate(c, deltaTime) ==
    IF isBrood(c)
    THEN LET b == CellUpdateBrood(c, deltaTime)
         IN  IF b.emerge THEN {b}
             ELSE {[cell |-> c2, emerge |-> FALSE] : c2 \in CellUpdateConsume(b.cell)}
    ELSE {[cell |-> c3, emerge |-> FALSE] :
            c3 \in UNION {CellUpdateConsume(c2) : c2 \in CellUpdateConvert(c)}}

----------------------------------------------------------------------------
(* PathfindingCache (performance-optimizer.js): a Map in insertion order *)

getKey(start, end) == <<start, end>>

CacheHas(cache, key) == \E k \in 1..Len(cache) : cache[k].key = key

\* PathfindingCache.get: the cached path, or NoPath for null
CacheGet(cache, start, end) ==
    LET key == getKey(start, end)
    IN  IF CacheHas(cache, key)
        THEN cache[CHOOSE k \in 1..Len(cache) : cache[k].key = key].path
        ELSE NoPath

\* a cache that makes room by dropping the entry inserted last
CacheSetDropsNewest(cache, start, end, path) ==
    LET key == getKey(start, end)
        kept == IF Len(cache) >= PathCacheSize
                THEN SubSeq(cache, 1, Len(cache) - 1) ELSE cache
    IN  IF CacheHas(kept, key)
        THEN [k \in 1..Len(kept) |->
                IF kept[k].key = key THEN [key |-> key, path |-> path] ELSE kept[k]]
        ELSE Append(kept, [key |-> key, path |-> path])

\* PathfindingCache.set: evict the first key when full, then Map.set
CacheSet(cache, start, end, path) ==
    LET key == getKey(start, end)
        kept == IF Len(cache) >= PathCacheSize THEN Tail(cache) ELSE cache
    IN  IF CacheHas(kept, key)
        THEN [k \in 1..Len(kept) |->
                IF kept[k].key = key THEN [key |-> key, path |-> path] ELSE kept[k]]
        ELSE Append(kept, [key |-> key, path |-> path])

----------------------------------------------------------------------------
(* PriorityQueue (utils.js) *)

\* a queue that hands out its newest item first, whatever the priorities
enqueueFirst(items, element, priority) ==
    <<[element |-> element, priority |-> priority]>> \o items

\* enqueue: insert before the first item of strictly greater priority
enqueue(items, element, priority) ==
    LET later == {k \in 1..Len(items) : priority < items[k].priority}
        at == IF later = {} THEN Len(items) + 1
              ELSE CHOOSE k \in later : \A j \in later : k <= j
    IN  SubSeq(items, 1, at - 1) \o <<[element |-> element, priority |-> priority]>>
          \o SubSeq(items, at, Len(items))

----------------------------------------------------------------------------
(* Hive.findPath and Hive.validatePath (hive.js) *)

Absent == -1

\* a validation that only asks for the nodes to be cells
validatePathCellsOnly(cs, path) ==
    /\ Len(path) > 0
    /\ \A k \in 1..Len(path) : path[k] \in DOMAIN cs

\* Hive.validatePath: no node but the last may be full, every node is a cell
validatePath(cs, path) ==
    /\ Len(path) > 0
    /\ \A k \in 1..Len(path) :
          /\ path[k] \in DOMAIN cs
          /\ ~(isFull(cs[path[k]]) /\ k # Len(path))

\* a relaxation that expands full cells like any other
AStarRelaxThroughFull(st, cs, current, next, end, preferEmpty) ==
    IF next \notin DOMAIN cs THEN st
    ELSE LET moveCost == IF preferEmpty /\ isOccupied(cs[next]) /\ next # end
                         THEN 3 ELSE 1
             newCost == st.costSoFar[current] + moveCost
         IN  IF st.costSoFar[next] = Absent \/ newCost < st.costSoFar[next]
             THEN [frontier |-> enqueue(st.frontier, next,
                                        newCost + distance(next, end)),
                   costSoFar |-> [st.costSoFar EXCEPT ![next] = newCost],
                   cameFrom |-> [st.cameFrom EXCEPT ![next] = current]]
             ELSE st

\* one iteration of "for (const next of neighbors)" in the A* loop
AStarRelax(st, cs, current, next, end, preferEmpty) ==
    IF next \notin DOMAIN cs THEN st
    ELSE IF isFull(cs[next]) /\ next # end THEN st
    ELSE LET moveCost == IF preferEmpty /\ isOccupied(cs[next]) /\ next # end
                         THEN 3 ELSE 1
             newCost == st.costSoFar[current] + moveCost
         IN  IF st.costSoFar[next] = Absent \/ newCost < st.costSoFar[next]
             THEN [frontier |-> enqueue(st.frontier, next,
                                        newCost + distance(next, end)),
                   costSoFar |-> [st.costSoFar EXCEPT ![next] = newCost],
                   cameFrom |-> [st.cameFrom EXCEPT ![next] = current]]
             ELSE st

RECURSIVE AStarNeighbors(_, _, _, _, _, _)
AStarNeighbors(st, cs, current, neighbors, end, preferEmpty) ==
    IF neighbors = <<>> THEN st
    ELSE AStarNeighbors(AStarRelax(st, cs, current, Head(neighbors), end, preferEmpty),
                        cs, current, Tail(neighbors), end, preferEmpty)

\* "while (!frontier.isEmpty())": dequeue, stop at the goal, else expand
RECURSIVE AStarLoop(_, _, _, _)
AStarLoop(st, cs, end, preferEmpty) ==
    IF st.frontier = <<>> THEN st
    ELSE LET current == Head(st.frontier).element
             rest == [st EXCEPT !.frontier = Tail(@)]
         IN  IF current = end THEN rest
             ELSE AStarLoop(AStarNeighbors(rest, cs, current, getHexNeighbors(current),
                                           end, preferEmpty),
                            cs, end, preferEmpty)

\* "while (current) { path.unshift(current); current = cameFrom.get(..) }"
RECURSIVE Reconstruct(_, _, _)
Reconstruct(cameFrom, current, path) ==
    IF current = NoCell THEN path
    ELSE Reconstruct(cameFrom, cameFrom[current], <<current>> \o path)

\* the search of Hive.findPath on a cache miss: the path, or NoPath for null
AStarSearch(cs, start, end, preferEmpty) ==
    IF start \notin DOMAIN cs \/ end \notin DOMAIN cs THEN NoPath
    ELSE LET init == [frontier |-> <<[element |-> start, priority |-> 0]>>,
                      costSoFar |-> [c \in DOMAIN cs |-> IF c = start THEN 0 ELSE Absent] @@ << >>,
                      cameFrom |-> [c \in DOMAIN cs |-> NoCell] @@ << >>]
             st == AStarLoop(init, cs, end, preferEmpty)
         IN  IF st.costSoFar[end] = Absent THEN NoPath
             ELSE Reconstruct(st.cameFrom, end, <<>>)

\* Hive.findPath: the returned path (NoPath for null), the cache afterwards,
\* and whether the result was served from the cache
findPath(cs, cache, start, end, preferEmpty) ==
    LET cached == CacheGet(cache, start, end)
    IN  IF cached # NoPath /\ validatePath(cs, cached)
        THEN [path |-> cached, cache |-> cache, hit |-> TRUE]
        ELSE LET path == AStarSearch(cs, start, end, preferEmpty)
             IN  [path |-> path,
                  cache |-> IF Len(path) > 0 THEN CacheSet(cache, start, end, path)
                            ELSE cache,
                  hit |-> FALSE]

----------------------------------------------------------------------------
(* Bee: construction (bee.js constructor; Bee.reset re-initialises a pooled
   bee with the same parameters) *)

NewBee(id, type, q, r) ==
    [id |-> id, type |-> type, q |-> q, r |-> r, targetQ |-> q, targetR |-> r,
     moveProgress |-> 4, age |-> 0,
     maxAge |-> IF type = BeeType.QUEEN THEN config.queenLifespan ELSE config.workerLifespan,
     task |-> BeeTask.IDLE, taskTimer |-> 0, targetCell |-> NoCell,
     nextTask |-> "none", nextTargetCell |-> NoCell, path |-> <<>>,
     hasNectar |-> FALSE, hasPollen |-> FALSE, hasWater |-> FALSE,
     hasDeadBee |-> FALSE, hasFood |-> FALSE, isOutsideHive |-> FALSE,
     lastTaskAssignTime |-> 0, simulationTime |-> 0, workDuration |-> 0,
     restTimer |-> 0, lastWanderTime |-> 0, taskStartTime |-> 0,
     taskTimeout |-> 0, lastPathCheck |-> 0,
     eggsLaidTotal |-> 0, eggsLaidHistory |-> <<>>]

\* bee.reset(type, q, r, config) on a bee taken from the pool
BeeReset(id, type, q, r) == NewBee(id, type, q, r)

\* the identity of the object handed out by beePool.acquire()
AcquireId(bs) == CHOOSE n \in 1..(Len(bs) + 1) :
                    /\ \A k \in 1..Len(bs) : bs[k].id # n
                    /\ \A m \in 1..(n - 1) : \E k \in 1..Len(bs) : bs[k].id = m

BeePos(b) == <<b.q, b.r>>

isYoung(b) == 2 * b.age < b.maxAge
isOld(b) == 5 * b.age > 4 * b.maxAge
isVeryOld(b) == 20 * b.age > 19 * b.maxAge

\* config.advanced.agingSlowdownFactor is 0 in the modelled configurations
getSpeedMultiplier(b) == 1

\* a random real interval [lo, hi), sampled at its ends
RandomRange(lo, hi) == {lo, hi}

SetBee(h, i, b) == [h EXCEPT !.bees[i] = b]

----------------------------------------------------------------------------
(* Hive queries used by the bees (hive.js) *)

\* the cells of the grid satisfying P, in iteration order
CellsWhere(h, P(_)) == SelectSeq(CellOrder, P)

\* number of bees with the given task and target cell
CountAt(h, tasks, c, P(_)) ==
    Cardinality({k \in 1..Len(h.bees) :
        /\ h.bees[k].task \in tasks
        /\ h.bees[k].targetCell = c
        /\ P(h.bees[k])})

AnyBee(b) == TRUE

\* (distFromCenter / maxDist) < pct/100 with centre (columns/2, rows/2)
InsideCentre(c, pct) ==
    10000 * ((2 * c[1] - Columns) * (2 * c[1] - Columns)
             + (2 * c[2] - Rows) * (2 * c[2] - Rows))
      < pct * pct * (Columns * Columns + Rows * Rows)

\* Hive.findNearestEmptyCellForQueen: the closest of a random sample (drawn
\* with replacement) of the suitable cells; any suitable cell can result
findNearestEmptyCellForQueen(h, pos) ==
    LET Suitable(c) == /\ isEmpty(h.cells[c])
                       /\ ~hasDeadBee(h.cells[c])
                       /\ ~h.cells[c].isDirty
                       /\ ~isEntranceCell(c)
                       /\ InsideCentre(c, 70)
    IN  SeqToSet(CellsWhere(h, Suitable))

\* Hive.findNearestEntrance: the first entrance at minimal distance
findNearestEntrance(h, pos) ==
    IF Len(EntranceCells) = 0 THEN NoCell
    ELSE LET best == CHOOSE k \in 1..Len(EntranceCells) :
                       /\ \A j \in 1..Len(EntranceCells) :
                             distance(pos, EntranceCells[k]) <= distance(pos, EntranceCells[j])
                       /\ \A j \in 1..(k - 1) :
                             distance(pos, EntranceCells[j]) > distance(pos, EntranceCells[k])
         IN  EntranceCells[best]

\* a random element of the first n entries of a list; {NoCell} if it is empty
RandomOfFirst(list, n) ==
    IF Len(list) = 0 THEN {NoCell}
    ELSE {list[k] : k \in 1..Min(n, Len(list))}

findHungryLarvae(h) ==
    LET P(c) == h.cells[c].state = CellState.LARVAE_HUNGRY
    IN  RandomOfFirst(CellsWhere(h, P), 10)

findFoodForFeeding(h) ==
    LET P(c) == /\ h.cells[c].state \in {CellState.HONEY, CellState.HONEY_COMPLETE, CellState.HONEY_CAPPED,
                                          CellState.POLLEN, CellState.BEE_BREAD}
                /\ h.cells[c].contentAmount > 5
    IN  RandomOfFirst(CellsWhere(h, P), 20)

FirstOrNone(list) == IF Len(list) = 0 THEN NoCell ELSE list[1]

findDirtyCell(h) ==
    LET P(c) == isEmpty(h.cells[c]) /\ h.cells[c].isDirty
    IN  FirstOrNone(CellsWhere(h, P))

findHoneyCappingCell(h) ==
    LET P(c) == h.cells[c].state = CellState.HONEY_COMPLETE
    IN  FirstOrNone(CellsWhere(h, P))

findDeadBeeCell(h) ==
    LET P(c) == hasDeadBee(h.cells[c]) /\ ~isEntranceCell(c)
        list == CellsWhere(h, P)
    IN  RandomOfFirst(list, Len(list))

\* Hive.findWaterStorageCell: the first candidate nearest to the centre cell
findWaterStorageCell(h) ==
    LET centre == <<Columns \div 2, Rows \div 2>>
        Storing(b) == b.hasWater
        P(c) == /\ \/ isEmpty(h.cells[c])
                   \/ h.cells[c].state = CellState.WATER /\ h.cells[c].contentAmount < 50
                /\ CountAt(h, {BeeTask.STORING_FOOD}, c, Storing) < 2
        list == CellsWhere(h, P)
    IN  IF Len(list) = 0 THEN NoCell
        ELSE list[CHOOSE k \in 1..Len(list) :
                    /\ \A j \in 1..Len(list) :
                          distance(list[k], centre) <= distance(list[j], centre)
                    /\ \A j \in 1..(k - 1) :
                          distance(list[j], centre) > distance(list[k], centre)]

\* Hive.temperature is kept as a level: cold (below optimal by more than 2),
\* cool (at or below optimal), warm (above optimal), hot (above by more than 2)
needsTemperatureRegulation(h) == h.temperature \in {"cold", "hot"}
AboveOptimal(h) == h.temperature \in {"warm", "hot"}

findTemperatureRegulationSpot(h) ==
    IF AboveOptimal(h)
    THEN IF Len(EntranceCells) > 0 THEN EntranceCells[1] ELSE NoCell
    ELSE LET P(c) == isBrood(h.cells[c])
         IN  FirstOrNone(CellsWhere(h, P))

\* utils.getActivityMultiplier, in hundredths: the hourly multiplier (tenths)
\* times the seasonal multiplier (tenths); randomnessRange is 0 in the
\* modelled configurations.  The hour of an Invalid Date is NaN, a key the
\* hourly multipliers do not have ("|| 0")
getActivityMultiplier(h) ==
    IF h.currentDate.hour = NaN THEN 0
    ELSE config.hourlyActivityMultipliers[h.currentDate.hour + 1]
           * config.seasonalMultipliers[h.currentDate.season]

getTotalCellCount(h) == Columns * Rows

----------------------------------------------------------------------------
(* Hive.getStats (hive.js) *)

RECURSIVE SumContent(_, _, _)
SumContent(h, states, k) ==
    IF k = 0 THEN 0
    ELSE SumContent(h, states, k - 1) +
         (IF h.cells[CellOrder[k]].state \in states
             /\ h.cells[CellOrder[k]].contentAmount > 0
          THEN h.cells[CellOrder[k]].contentAmount ELSE 0)

CountBees(h, P(_)) == Cardinality({k \in 1..Len(h.bees) : P(h.bees[k])})

ZeroStats == [population |-> 0, workers |-> 0, brood |-> 0, honey |-> 0,
              pollen |-> 0, water |-> 0, beesInside |-> 0, beesOutside |-> 0,
              foragingRate |-> 0]

\* a count that takes every bee for a bee inside
StatsInsideAll(inside, outside, population) == population

\* the repair of the inside/outside split when it does not add up
StatsInside(inside, outside, population) ==
    IF inside + outside = population THEN inside
    ELSE IF inside + outside = 0 /\ population > 0 THEN population
    ELSE IF inside + outside < population
         THEN inside + (population - (inside + outside))
         ELSE (2 * inside * population + (inside + outside))
                \div (2 * (inside + outside))

StatsOutside(inside, outside, population) ==
    IF inside + outside <= population THEN outside
    ELSE population - StatsInside(inside, outside, population)

\* the repair of the worker count: recount, then fall back on the expected value
StatsWorkers(counted, recounted, population, queenCount) ==
    IF counted # population - queenCount /\ population > 0
    THEN IF recounted # population - queenCount
         THEN Max(0, population - queenCount)
         ELSE recounted
    ELSE counted

\* honey, pollen and water are Math.floor of the summed amounts (whole units)
getStats(h) ==
    IF Len(h.bees) = 0 THEN ZeroStats
    ELSE LET IsWorker(b) == b.type = BeeType.WORKER
             IsOutside(b) == b.isOutsideHive
             IsInside(b) == ~b.isOutsideHive
             workerCount == CountBees(h, IsWorker)
             outside == CountBees(h, IsOutside)
             inside == CountBees(h, IsInside)
             population == Len(h.bees)
             InLastHour(k) == h.foragingHistory[k] > h.simulationTime - 7200
         IN  [population |-> population,
              workers |-> StatsWorkers(workerCount, CountBees(h, IsWorker), population,
                                       IF h.queen # 0 THEN 1 ELSE 0),
              brood |-> Cardinality({c \in DOMAIN h.cells : isBrood(h.cells[c])}),
              honey |-> SumContent(h, {CellState.HONEY, CellState.HONEY_COMPLETE, CellState.HONEY_CAPPED},
                                   Len(CellOrder)) \div 10,
              pollen |-> SumContent(h, {CellState.POLLEN, CellState.BEE_BREAD}, Len(CellOrder)) \div 10,
              water |-> SumContent(h, {CellState.WATER}, Len(CellOrder)) \div 10,
              beesInside |-> StatsInside(inside, outside, population),
              beesOutside |-> StatsOutside(inside, outside, population),
              foragingRate |-> Cardinality({k \in 1..Len(h.foragingHistory) :
                                              InLastHour(k)})]

\* totalFood / totalCells compared with 0.35
FoodRatioAbove35(h) ==
    100 * (getStats(h).honey + getStats(h).pollen) > 35 * getTotalCellCount(h)
FoodRatioAtLeast35(h) ==
    100 * (getStats(h).honey + getStats(h).pollen) >= 35 * getTotalCellCount(h)

----------------------------------------------------------------------------
(* Hive.findAppropriateStorageCell and Hive.findEmptyStorageCell (hive.js) *)

\* normalizedDist = distFromCenter / maxDist in thousandths
NormalizedDist(c) ==
    ISqrt((1000000 * ((2 * c[1] - Columns) * (2 * c[1] - Columns)
                      + (2 * c[2] - Rows) * (2 * c[2] - Rows)))
          \div (Columns * Columns + Rows * Rows))

\* normalizedRow = r / rows in thousandths
NormalizedRow(c) == (1000 * c[2]) \div Rows

findEmptyStorageCell(h) ==
    LET P(c) == isEmpty(h.cells[c])
        list == CellsWhere(h, P)
    IN  RandomOfFirst(list, Len(list))

StorageScore(c, forNectar, forPollen) ==
    IF forNectar THEN (1000 - NormalizedRow(c)) * 2 + (NormalizedDist(c) * 3) \div 2
    ELSE IF forPollen THEN (1000 - Abs(NormalizedDist(c) - 500) * 2) * 2
    ELSE NormalizedDist(c)

findAppropriateStorageCell(h, forNectar, forPollen) ==
    IF ~config.separateBroodAndHoney THEN findEmptyStorageCell(h)
    ELSE LET Free(c) == /\ isEmpty(h.cells[c])
                        /\ CountAt(h, {BeeTask.STORING_FOOD}, c, AnyBee) < 2
             emptyCells == CellsWhere(h, Free)
             Suitable(c) ==
                 IF forNectar
                 THEN NormalizedRow(c) < 600 /\ NormalizedDist(c) > 400
                 ELSE IF forPollen
                      THEN NormalizedDist(c) > 350 /\ NormalizedDist(c) < 700
                      ELSE TRUE
             Outer(c) == NormalizedDist(c) > 300
             suitableCells == SelectSeq(emptyCells, Suitable)
             fallback == SelectSeq(emptyCells, Outer)
             cellsToUse == IF Len(suitableCells) > 0 THEN suitableCells
                           ELSE IF Len(fallback) > 0 THEN fallback
                           ELSE emptyCells
             cellScores == SortByKey([k \in 1..Len(cellsToUse) |->
                              [cell |-> cellsToUse[k],
                               key |-> 0 - StorageScore(cellsToUse[k], forNectar,
                                                        forPollen)]])
         IN  IF Len(emptyCells) = 0 THEN {NoCell}
             ELSE {cellScores[k].cell : k \in 1..Min(5, Len(cellScores))}

----------------------------------------------------------------------------
(* Bee: task bookkeeping (bee.js) *)

\* Bee.setTaskTimeout: the budget per task type
TaskTimeoutOf(task) ==
    CASE task = BeeTask.UNDERTAKING -> 240
      [] task = BeeTask.FORAGING -> 600
      [] task \in {BeeTask.NURSING, BeeTask.FEEDING_QUEEN} -> 360
      [] task = BeeTask.CLEANING -> 180
      [] task = BeeTask.CAPPING_HONEY -> 120
      [] task = BeeTask.COLLECTING_FOOD -> 240
      [] task = BeeTask.TEMPERATURE_REGULATION -> 480
      [] task = BeeTask.WATER_COLLECTION -> 600
      [] OTHER -> 360

\* a task start that sets no budget
setTaskTimeoutNone(b) == [b EXCEPT !.taskTimeout = 0]

setTaskTimeout(b) == [b EXCEPT !.taskTimeout = TaskTimeoutOf(b.task)]

\* "this.taskStartTime = this.simulationTime; this.setTaskTimeout();"
StartTask(b) == setTaskTimeout([b EXCEPT !.taskStartTime = b.simulationTime])

\* Bee.setSimulationTime
setSimulationTime(b, time) ==
    LET b1 == [b EXCEPT !.simulationTime = time]
    IN  IF b1.task # BeeTask.IDLE /\ b1.taskStartTime = 0
        THEN setTaskTimeout([b1 EXCEPT !.taskStartTime = time])
        ELSE b1

\* Bee.validateTaskTarget
validateTaskTarget(h, b) ==
    IF b.targetCell = NoCell THEN TRUE
    ELSE IF b.targetCell \notin DOMAIN h.cells THEN FALSE
    ELSE LET cell == h.cells[b.targetCell]
         IN  CASE b.task = BeeTask.UNDERTAKING ->
                    hasDeadBee(cell) /\ ~isEntranceCell(b.targetCell)
               [] b.task = BeeTask.CLEANING -> cell.isDirty /\ isEmpty(cell)
               [] b.task = BeeTask.NURSING ->
                    /\ cell.state = CellState.LARVAE_HUNGRY
                    /\ ~hasDeadBee(cell)
                    /\ cell.occupyingBees < 3
               [] b.task = BeeTask.FEEDING_QUEEN ->
                    /\ h.queen # 0
                    /\ \E k \in 1..Len(h.bees) :
                          h.bees[k].id = h.queen /\ BeePos(h.bees[k]) = b.targetCell
               [] b.task = BeeTask.CAPPING_HONEY -> cell.state = CellState.HONEY_COMPLETE
               [] b.task = BeeTask.COLLECTING_FOOD -> isFood(cell) /\ cell.contentAmount > 0
               [] b.task = BeeTask.STORING_FOOD ->
                    isEmpty(cell) \/ cell.state \in {CellState.NECTAR, CellState.POLLEN, CellState.WATER}
               [] OTHER -> TRUE

\* a cancellation that drops the carried corpse in an entrance cell too
cancelTaskDropsAtEntrance(h, i) ==
    LET b == h.bees[i]
        carrying == b.task = BeeTask.UNDERTAKING /\ b.hasDeadBee
        cs == IF carrying /\ BeePos(b) \in DOMAIN h.cells
              THEN [h.cells EXCEPT ![BeePos(b)] = addDeadBee(@)]
              ELSE h.cells
    IN  {[h EXCEPT !.cells = cs,
                   !.bees[i] = [b EXCEPT !.hasDeadBee = IF carrying THEN FALSE ELSE @,
                                         !.task = BeeTask.IDLE, !.targetCell = NoCell,
                                         !.nextTask = "none", !.nextTargetCell = NoCell,
                                         !.path = <<>>, !.taskStartTime = 0,
                                         !.taskTimeout = 0, !.taskTimer = t]] :
            t \in RandomRange(2, 6)}

\* Bee.cancelTask
cancelTask(h, i) ==
    LET b == h.bees[i]
        carrying == b.task = BeeTask.UNDERTAKING /\ b.hasDeadBee
        cs == IF carrying /\ BeePos(b) \in DOMAIN h.cells /\ ~isEntranceCell(BeePos(b))
              THEN [h.cells EXCEPT ![BeePos(b)] = addDeadBee(@)]
              ELSE h.cells
    IN  {[h EXCEPT !.cells = cs,
                   !.bees[i] = [b EXCEPT !.hasDeadBee = IF carrying THEN FALSE ELSE @,
                                         !.task = BeeTask.IDLE, !.targetCell = NoCell,
                                         !.nextTask = "none", !.nextTargetCell = NoCell,
                                         !.path = <<>>, !.taskStartTime = 0,
                                         !.taskTimeout = 0, !.taskTimer = t]] :
            t \in RandomRange(2, 6)}

\* Bee.findPath: ask the hive for a path and keep its tail
BeeFindPath(h, i) ==
    LET b == h.bees[i]
    IN  IF b.targetCell = NoCell \/ ~config.pathfindingEnabled THEN h
        ELSE LET res == findPath(h.cells, h.pathCache, BeePos(b), b.targetCell,
                                 config.preferEmptyRoutes)
             IN  [h EXCEPT !.pathCache = res.cache,
                           !.bees[i].path = IF Len(res.path) > 1 THEN Tail(res.path)
                                            ELSE @]

\* a bee that sets out for the last cell of its path at once
startMovingToDestination(b) ==
    IF Len(b.path) > 0
    THEN [b EXCEPT !.targetQ = b.path[Len(b.path)][1], !.targetR = b.path[Len(b.path)][2],
                   !.moveProgress = 0, !.path = << >>]
    ELSE b

\* Bee.startMovingToNextCell
startMovingToNextCell(b) ==
    IF Len(b.path) > 0
    THEN [b EXCEPT !.targetQ = b.path[1][1], !.targetR = b.path[1][2],
                   !.moveProgress = 0, !.path = Tail(b.path)]
    ELSE b

\* give bee i a task with a target and look for a path to it
TakeTask(h, i, task, target, timed) ==
    LET b == [h.bees[i] EXCEPT !.task = task, !.targetCell = target]
    IN  BeeFindPath(SetBee(h, i, IF timed THEN StartTask(b) ELSE b), i)

\* go and collect food first, remembering the task to do afterwards
TakeCollecting(h, i, foodCell, nextTask, nextTarget, timed) ==
    LET b == [h.bees[i] EXCEPT !.task = BeeTask.COLLECTING_FOOD, !.nextTask = nextTask,
                               !.nextTargetCell = nextTarget, !.targetCell = foodCell]
    IN  BeeFindPath(SetBee(h, i, IF timed THEN StartTask(b) ELSE b), i)

\* Hive.recordForagingTrip
recordForagingTrip(h) ==
    LET hist == Append(h.foragingHistory, h.simulationTime)
        Recent(t) == t > h.simulationTime - 7200
    IN  [h EXCEPT !.foragingHistory = SelectSeq(hist, Recent)]

----------------------------------------------------------------------------
(* Bee.completeTask (bee.js): the set of possible hive states afterwards *)

\* the queen, idle, with her laying timer expired
CompleteQueenLaying(h, i) ==
    LET b == h.bees[i]
        pos == BeePos(b)
        Recent(t) == t > b.simulationTime - 7200
    IN  IF pos \in DOMAIN h.cells /\ isEmpty(h.cells[pos])
        THEN {[h EXCEPT !.cells[pos] = setEgg(@),
                        !.currentDaySummary.eggsLaid = @ + 1,
                        !.bees[i] = [b EXCEPT
                            !.eggsLaidTotal = @ + 1,
                            !.eggsLaidHistory =
                                SelectSeq(Append(@, b.simulationTime), Recent),
                            !.taskTimer = 2]]}
        ELSE {SetBee(h, i, [b EXCEPT !.taskTimer = 0])}

\* workerForagingDuration / activityMultiplier
ForagingTimer(h) ==
    IF getActivityMultiplier(h) = 0 THEN Infinity
    ELSE (config.workerForagingDuration * 100 + getActivityMultiplier(h) - 1)
           \div getActivityMultiplier(h)

\* the cargo a returning forager may carry: (hasNectar, hasPollen)
ForagingCargo(b) ==
    {<<b.hasNectar, b.hasPollen>>, <<TRUE, TRUE>>, <<TRUE, FALSE>>, <<FALSE, TRUE>>}

CompleteForaging(h, i) ==
    LET b == h.bees[i]
    IN  IF ~b.isOutsideHive
        THEN {SetBee(h, i, [b EXCEPT !.isOutsideHive = TRUE,
                                     !.taskTimer = ForagingTimer(h)])}
        ELSE UNION {
           LET b1 == [b EXCEPT !.isOutsideHive = FALSE,
                               !.hasNectar = cargo[1], !.hasPollen = cargo[2]]
               h1 == recordForagingTrip(SetBee(h, i, b1))
           IN  IF b1.hasNectar \/ b1.hasPollen
               THEN IF FoodRatioAtLeast35(h1)
                    THEN {SetBee(h1, i, [b1 EXCEPT !.hasNectar = FALSE,
                                                   !.hasPollen = FALSE,
                                                   !.task = BeeTask.IDLE, !.taskTimer = t]) :
                             t \in RandomRange(40, 80)}
                    ELSE UNION {
                       IF storageCell # NoCell
                       THEN {TakeTask(h1, i, BeeTask.STORING_FOOD, storageCell, TRUE)}
                       ELSE {SetBee(h1, i, [b1 EXCEPT !.task = BeeTask.IDLE, !.taskTimer = t]) :
                                t \in RandomRange(30, 60)} :
                       storageCell \in findAppropriateStorageCell(h1, b1.hasNectar,
                                                                  b1.hasPollen)}
               ELSE {SetBee(h1, i, [b1 EXCEPT !.task = BeeTask.IDLE, !.taskTimer = t]) :
                        t \in RandomRange(40, 80)} :
           cargo \in ForagingCargo(b)}

CompleteCollectingFood(h, i) ==
    LET b == h.bees[i]
        found == /\ b.targetCell # NoCell
                 /\ b.targetCell \in DOMAIN h.cells
                 /\ h.cells[b.targetCell].contentAmount > 0
        cs == IF found
              THEN [h.cells EXCEPT ![b.targetCell] =
                      IF @.state \in {CellState.HONEY, CellState.HONEY_COMPLETE} THEN consumeHoney(@, 5)
                      ELSE IF @.state \in {CellState.POLLEN, CellState.BEE_BREAD} THEN consumePollen(@, 5)
                      ELSE @]
              ELSE h.cells
        b1 == [b EXCEPT !.hasFood = IF found THEN TRUE ELSE @]
        note == [cell |-> b.targetCell, state |-> h.cells[b.targetCell].state,
                 taken |-> h.cells[b.targetCell].contentAmount
                             - cs[b.targetCell].contentAmount]
        h1 == [h EXCEPT !.cells = cs,
                        !.collected = IF found /\ ~b.hasFood THEN Append(@, note) ELSE @]
        queenPos == IF h.queen = 0 THEN NoCell
                    ELSE BeePos(h.bees[CHOOSE k \in 1..Len(h.bees) :
                                          h.bees[k].id = h.queen])
    IN  IF b1.nextTask = BeeTask.NURSING /\ b1.nextTargetCell # NoCell
        THEN {BeeFindPath(SetBee(h1, i,
                 StartTask([b1 EXCEPT !.task = BeeTask.NURSING,
                                      !.targetCell = b1.nextTargetCell,
                                      !.nextTask = "none",
                                      !.nextTargetCell = NoCell])), i)}
        ELSE IF b1.nextTask = BeeTask.FEEDING_QUEEN /\ h.queen # 0
        THEN {BeeFindPath(SetBee(h1, i,
                 StartTask([b1 EXCEPT !.task = BeeTask.FEEDING_QUEEN,
                                      !.targetCell = queenPos,
                                      !.nextTask = "none"])), i)}
        ELSE {SetBee(h1, i, [b1 EXCEPT !.task = BeeTask.IDLE, !.hasFood = FALSE])}

CompleteNursing(h, i) ==
    LET b == h.bees[i]
    IN  IF b.targetCell # NoCell
        THEN IF /\ b.targetCell \in DOMAIN h.cells
                /\ b.hasFood
                /\ h.cells[b.targetCell].state = CellState.LARVAE_HUNGRY
             THEN {[h EXCEPT !.cells[b.targetCell] = feedLarvae(@),
                             !.bees[i] = [b EXCEPT !.hasFood = FALSE, !.task = BeeTask.IDLE,
                                                   !.targetCell = NoCell,
                                                   !.taskStartTime = 0,
                                                   !.taskTimeout = 0]]}
             ELSE cancelTask(h, i)
        ELSE {SetBee(h, i, [b EXCEPT !.task = BeeTask.IDLE, !.targetCell = NoCell,
                                     !.taskStartTime = 0, !.taskTimeout = 0])}

\* an undertaking that lays the corpse down on the entrance cell it has
\* reached, where completeTask throws it out of the hive
CompleteUndertakingLeavesCorpse(h, i) ==
    LET b == h.bees[i]
    IN  IF b.hasDeadBee
        THEN {SetBee([h EXCEPT !.cells[BeePos(b)] = addDeadBee(@)], i,
                     [b EXCEPT !.hasDeadBee = FALSE, !.task = BeeTask.IDLE,
                               !.targetCell = NoCell, !.taskStartTime = 0,
                               !.taskTimeout = 0])}
        ELSE IF b.targetCell = NoCell THEN cancelTask(h, i)
        ELSE IF b.targetCell \in DOMAIN h.cells /\ hasDeadBee(h.cells[b.targetCell])
        THEN LET h1 == [h EXCEPT !.cells[b.targetCell] = removeDeadBee(@),
                                 !.bees[i].hasDeadBee = TRUE]
                 entrance == findNearestEntrance(h1, BeePos(b))
             IN  IF entrance # NoCell
                 THEN {BeeFindPath(SetBee(h1, i,
                          StartTask([h1.bees[i] EXCEPT !.targetCell = entrance])), i)}
                 ELSE cancelTask(h1, i)
        ELSE cancelTask(h, i)

CompleteUndertaking(h, i) ==
    LET b == h.bees[i]
    IN  IF b.hasDeadBee
        THEN {SetBee(h, i, [b EXCEPT !.hasDeadBee = FALSE, !.task = BeeTask.IDLE,
                                     !.targetCell = NoCell, !.taskStartTime = 0,
                                     !.taskTimeout = 0])}
        ELSE IF b.targetCell = NoCell THEN cancelTask(h, i)
        ELSE IF b.targetCell \in DOMAIN h.cells /\ hasDeadBee(h.cells[b.targetCell])
        THEN LET h1 == [h EXCEPT !.cells[b.targetCell] = removeDeadBee(@),
                                 !.bees[i].hasDeadBee = TRUE]
                 entrance == findNearestEntrance(h1, BeePos(b))
             IN  IF entrance # NoCell
                 THEN {BeeFindPath(SetBee(h1, i,
                          StartTask([h1.bees[i] EXCEPT !.targetCell = entrance])), i)}
                 ELSE cancelTask(
                        [h1 EXCEPT !.cells = IF BeePos(b) \in DOMAIN h1.cells
                                             THEN [h1.cells EXCEPT ![BeePos(b)] =
                                                     addDeadBee(@)]
                                             ELSE h1.cells,
                                   !.bees[i].hasDeadBee = FALSE], i)
        ELSE cancelTask(h, i)

CompleteWaterCollection(h, i) ==
    LET b == h.bees[i]
    IN  IF ~b.isOutsideHive
        THEN {SetBee(h, i, [b EXCEPT !.isOutsideHive = TRUE,
                                     !.taskTimer = config.waterCollectionDuration])}
        ELSE UNION {
           LET b1 == [b EXCEPT !.isOutsideHive = FALSE, !.hasWater = water]
               h1 == SetBee(h, i, b1)
               waterCell == findWaterStorageCell(h1)
           IN  IF b1.hasWater /\ waterCell # NoCell
               THEN {TakeTask(h1, i, BeeTask.STORING_FOOD, waterCell, FALSE)}
               ELSE {SetBee(h1, i, [b1 EXCEPT !.task = BeeTask.IDLE])} :
           water \in {b.hasWater, TRUE}}

completeTask(h, i) ==
    LET b == h.bees[i]
        Idle(b1) == {SetBee(h, i, [b1 EXCEPT !.task = BeeTask.IDLE, !.targetCell = NoCell])}
    IN  IF b.type = BeeType.QUEEN /\ b.task = BeeTask.IDLE THEN CompleteQueenLaying(h, i)
        ELSE CASE b.task = BeeTask.FORAGING -> CompleteForaging(h, i)
               [] b.task = BeeTask.COLLECTING_FOOD -> CompleteCollectingFood(h, i)
               [] b.task = BeeTask.NURSING -> CompleteNursing(h, i)
               [] b.task = BeeTask.FEEDING_QUEEN -> Idle([b EXCEPT !.hasFood = FALSE])
               [] b.task = BeeTask.STORING_FOOD ->
                    Idle([b EXCEPT !.hasNectar = FALSE, !.hasPollen = FALSE])
               [] b.task \in {BeeTask.CLEANING, BeeTask.CAPPING_HONEY, BeeTask.ATTENDING_QUEEN} -> Idle(b)
               [] b.task = BeeTask.UNDERTAKING -> CompleteUndertaking(h, i)
               [] b.task = BeeTask.WATER_COLLECTION -> CompleteWaterCollection(h, i)
               [] b.task = BeeTask.TEMPERATURE_REGULATION -> Idle([b EXCEPT !.taskTimer = 20])
               [] OTHER -> {h}

----------------------------------------------------------------------------
(* Bee.onReachDestination (bee.js) *)

\* "3 + Math.floor(Math.random() * 3)" units, in tenths
CargoAmounts == {30, 40, 50}

\* the note of one add operation of a storing bee: the amount passed to the
\* cell and what the operation added to its contentAmount
Stored(food, amount, before, after) ==
    [food |-> food, amount |-> amount,
     added |-> after.contentAmount - before.contentAmount]

\* unload nectar, then pollen, then water into the cell at pos; withWater is
\* the unloading of a StoringFood bee, which is noted in the log stored
Unload(h, i, pos, withWater) ==
    LET b == h.bees[i]
        nectar == IF b.hasNectar THEN CargoAmounts ELSE {0}
        pollen == IF b.hasPollen THEN CargoAmounts ELSE {0}
        water == IF withWater /\ b.hasWater THEN 10 ELSE 0
    IN  IF pos \notin DOMAIN h.cells THEN {h}
        ELSE {LET c0 == h.cells[pos]
                  c1 == IF b.hasNectar THEN addNectar(c0, n) ELSE c0
                  c2 == IF b.hasPollen THEN addPollen(c1, p) ELSE c1
                  c3 == IF water > 0 THEN addWater(c2, water) ELSE c2
                  notes == (IF b.hasNectar THEN << Stored("nectar", n, c0, c1) >>
                            ELSE << >>)
                           \o (IF b.hasPollen THEN << Stored("pollen", p, c1, c2) >>
                               ELSE << >>)
                           \o (IF water > 0 THEN << Stored("water", water, c2, c3) >>
                               ELSE << >>)
              IN  [h EXCEPT !.cells[pos] = c3,
                            !.currentDaySummary.nectarCollected = @ + n,
                            !.currentDaySummary.pollenCollected = @ + p,
                            !.currentDaySummary.waterCollected = @ + water,
                            !.stored = IF withWater THEN @ \o notes ELSE @] :
              n \in nectar, p \in pollen}

ReachReturning(h, i) ==
    LET b == h.bees[i]
    IN  IF isEntranceCell(b.targetCell)
        THEN IF FoodRatioAtLeast35(h)
             THEN {SetBee(h, i, [b EXCEPT !.hasNectar = FALSE, !.hasPollen = FALSE,
                                          !.task = BeeTask.IDLE, !.targetCell = NoCell])}
             ELSE {IF storageCell # NoCell
                   THEN TakeTask(h, i, BeeTask.STORING_FOOD, storageCell, FALSE)
                   ELSE SetBee(h, i, [b EXCEPT !.task = BeeTask.IDLE, !.targetCell = NoCell]) :
                   storageCell \in findAppropriateStorageCell(h, b.hasNectar,
                                                              b.hasPollen)}
        ELSE {[h1 EXCEPT !.bees[i] = [@ EXCEPT !.hasNectar = FALSE,
                                               !.hasPollen = FALSE,
                                               !.task = BeeTask.IDLE,
                                               !.targetCell = NoCell]] :
                 h1 \in Unload(h, i, b.targetCell, FALSE)}

ReachStoring(h, i) ==
    {[h1 EXCEPT !.bees[i] = [@ EXCEPT !.hasNectar = FALSE, !.hasPollen = FALSE,
                                      !.hasWater = FALSE, !.task = BeeTask.IDLE,
                                      !.targetCell = NoCell]] :
        h1 \in Unload(h, i, h.bees[i].targetCell, TRUE)}

\* apply op to the target cell of bee i, if it has one, then set its timer
ReachWork(h, i, op(_), timer) ==
    LET b == h.bees[i]
        cs == IF b.targetCell # NoCell /\ b.targetCell \in DOMAIN h.cells
              THEN [h.cells EXCEPT ![b.targetCell] = op(@)]
              ELSE h.cells
    IN  {[h EXCEPT !.cells = cs, !.bees[i].taskTimer = timer]}

onReachDestination(h, i) ==
    LET b == h.bees[i]
        Timer(t) == {SetBee(h, i, [b EXCEPT !.taskTimer = t])}
        completes == \/ b.task \in {BeeTask.FORAGING, BeeTask.WATER_COLLECTION,
                                    BeeTask.COLLECTING_FOOD}
                     \/ /\ b.task = BeeTask.UNDERTAKING
                        /\ b.hasDeadBee /\ isEntranceCell(BeePos(b))
    IN  IF b.task = BeeTask.RETURNING /\ b.targetCell # NoCell THEN ReachReturning(h, i)
        ELSE IF completes THEN completeTask(h, i)
        ELSE CASE b.task = BeeTask.NURSING -> Timer(config.workerNurseDuration)
               [] b.task = BeeTask.FEEDING_QUEEN -> Timer(config.queenFeedingInterval)
               [] b.task = BeeTask.ATTENDING_QUEEN -> Timer(30)
               [] b.task = BeeTask.CLEANING -> ReachWork(h, i, clean, 20)
               [] b.task = BeeTask.CAPPING_HONEY -> ReachWork(h, i, capHoney, 24)
               [] b.task = BeeTask.UNDERTAKING ->
                    IF ~b.hasDeadBee /\ b.targetCell # NoCell
                    THEN ReachWork(h, i, removeDeadBee, 2)
                    ELSE {h}
               [] b.task = BeeTask.TEMPERATURE_REGULATION -> Timer(30)
               [] b.task = BeeTask.STORING_FOOD -> ReachStoring(h, i)
               [] OTHER -> {h}

----------------------------------------------------------------------------
(* Bee: looking for work (bee.js) *)

QueenIndex(h) == CHOOSE k \in 1..Len(h.bees) : h.bees[k].id = h.queen
QueenPos(h) == IF h.queen = 0 THEN NoCell ELSE BeePos(h.bees[QueenIndex(h)])

CountCells(h, P(_)) == Cardinality({c \in DOMAIN h.cells : P(h.cells[c])})
IsDirtyCell(c) == c.isDirty
IsHungryCell(c) == c.state = CellState.LARVAE_HUNGRY

\* Bee.calculateTaskCheckInterval: intervals below one half-second count as
\* one; the normal interval is random in 0.5 .. 1.5 seconds
calculateTaskCheckInterval(h) ==
    IF CountCells(h, hasDeadBee) > 0 THEN {1}
    ELSE IF 10 * CountCells(h, IsHungryCell) > getStats(h).population THEN {1}
    ELSE IF CountCells(h, IsDirtyCell) > 5 THEN {1}
    ELSE RandomRange(1, 3)

needsRest(b) == b.workDuration > (IF isOld(b) THEN 600 ELSE 1200)

NotCarrying(b) == ~b.hasDeadBee

NoWork == [type |-> "none", cell |-> NoCell]

\* Bee.scanNearbyForWork: the first opportunity of the highest priority
scanNearbyForWork(h, b) ==
    LET near == SelectSeq(getHexNeighbors(BeePos(b)), LAMBDA n : n \in DOMAIN h.cells)
        Undertake(n) == /\ hasDeadBee(h.cells[n]) /\ ~isEntranceCell(n)
                        /\ CountAt(h, {BeeTask.UNDERTAKING}, n, NotCarrying) < 2
        Nurse(n) == /\ h.cells[n].state = CellState.LARVAE_HUNGRY
                    /\ CountAt(h, {BeeTask.NURSING}, n, AnyBee) < 2
        Clean(n) == h.cells[n].isDirty /\ isEmpty(h.cells[n])
        Cap(n) == h.cells[n].state = CellState.HONEY_COMPLETE
    IN  IF Len(SelectSeq(near, Undertake)) > 0
        THEN [type |-> "undertaking", cell |-> SelectSeq(near, Undertake)[1]]
        ELSE IF Len(SelectSeq(near, Nurse)) > 0
        THEN [type |-> "nursing", cell |-> SelectSeq(near, Nurse)[1]]
        ELSE IF Len(SelectSeq(near, Clean)) > 0
        THEN [type |-> "cleaning", cell |-> SelectSeq(near, Clean)[1]]
        ELSE IF Len(SelectSeq(near, Cap)) > 0
        THEN [type |-> "capping", cell |-> SelectSeq(near, Cap)[1]]
        ELSE NoWork

\* the first entry of a non-empty list with the smallest key
FirstMin(list, key(_)) ==
    list[CHOOSE k \in 1..Len(list) :
            /\ \A j \in 1..Len(list) : key(list[k]) <= key(list[j])
            /\ \A j \in 1..(k - 1) : key(list[j]) > key(list[k])]

\* Bee.findWorkDirection
findWorkDirection(h, b) ==
    LET Work(c) == \/ h.cells[c].isDirty
                   \/ h.cells[c].state = CellState.LARVAE_HUNGRY
                   \/ hasDeadBee(h.cells[c]) /\ ~isEntranceCell(c)
        workCells == CellsWhere(h, Work)
        Valid(n) == n \in DOMAIN h.cells /\ ~isEntranceCell(n) /\ ~isFull(h.cells[n])
        validNeighbors == SelectSeq(getHexNeighbors(BeePos(b)), Valid)
        Crowd(n) == h.cells[n].occupyingBees
        FromBee(c) == distance(BeePos(b), c)
        nearestWork == FirstMin(workCells, FromBee)
        ToWork(n) == distance(n, nearestWork)
    IN  IF Len(validNeighbors) = 0 THEN NoCell
        ELSE IF Len(workCells) = 0 THEN FirstMin(validNeighbors, Crowd)
        ELSE FirstMin(validNeighbors, ToWork)

\* the wander filter reads "cell !== null && ... && !cell.isFull()": a
\* neighbour off the grid is undefined, passes the null test and makes
\* isFull throw a TypeError, which assignTask catches
WanderThrows(h, b) ==
    \E k \in 1..6 : LET n == getHexNeighbors(BeePos(b))[k]
                    IN  n \notin DOMAIN h.cells /\ ~isEntranceCell(n)

WanderNeighbors(h, b) ==
    LET Valid(n) == n \in DOMAIN h.cells /\ ~isEntranceCell(n) /\ ~isFull(h.cells[n])
    IN  SelectSeq(getHexNeighbors(BeePos(b)), Valid)

\* the catch block of assignTask
AssignCaught(b) == [b EXCEPT !.task = BeeTask.IDLE, !.taskTimer = 20]

\* step to a neighbouring cell: "this.path = [target]; this.startMovingToNextCell()"
StepTo(b, target) ==
    startMovingToNextCell([b EXCEPT !.targetCell = target, !.path = <<target>>])

\* Bee.assignTask, queen branch
QueenWander(h, i) ==
    LET b == h.bees[i]
        valid == WanderNeighbors(h, b)
    IN  IF WanderThrows(h, b) THEN {SetBee(h, i, AssignCaught(b))}
        ELSE IF Len(valid) > 0
        THEN {SetBee(h, i, [StepTo([b EXCEPT !.task = BeeTask.IDLE], valid[k])
                              EXCEPT !.taskTimer = 10]) : k \in 1..Len(valid)}
        ELSE {SetBee(h, i, [b EXCEPT !.task = BeeTask.IDLE, !.taskTimer = t]) :
                 t \in RandomRange(40, 60)}

QueenAssignTask(h, i) ==
    LET b == h.bees[i]
        pos == BeePos(b)
        Available(n) == /\ n \in DOMAIN h.cells
                        /\ isEmpty(h.cells[n]) /\ ~hasDeadBee(h.cells[n])
                        /\ ~h.cells[n].isDirty /\ ~isEntranceCell(n)
        availableNeighbors == SelectSeq(getHexNeighbors(pos), Available)
        distant == findNearestEmptyCellForQueen(h, pos)
    IN  IF /\ pos \in DOMAIN h.cells
           /\ isEmpty(h.cells[pos]) /\ ~hasDeadBee(h.cells[pos])
           /\ ~h.cells[pos].isDirty /\ b.moveProgress >= 4
        THEN {SetBee(h, i, [b EXCEPT !.task = BeeTask.IDLE,
                                     !.taskTimer = config.queenEggLayingInterval])}
        ELSE IF Len(availableNeighbors) > 0
        THEN {SetBee(h, i, [StepTo([b EXCEPT !.task = BeeTask.IDLE], availableNeighbors[k])
                              EXCEPT !.taskTimer = 4]) :
                 k \in 1..Len(availableNeighbors)}
        ELSE IF distant = {} THEN QueenWander(h, i)
        ELSE UNION {
           LET h1 == BeeFindPath(SetBee(h, i, [b EXCEPT !.task = BeeTask.IDLE,
                                                        !.targetCell = d]), i)
           IN  IF Len(h1.bees[i].path) > 0
               THEN {SetBee(h1, i, [startMovingToNextCell(h1.bees[i])
                                      EXCEPT !.taskTimer = 4])}
               ELSE QueenWander(h1, i) :
           d \in distant}

----------------------------------------------------------------------------
(* Bee.assignTask, worker ladder (bee.js).  Each rung is the set of outcomes
   from that rung downwards; a Math.random() test that fails falls through
   to the next rung. *)

\* the idle timer and the purposeful or random wander at the foot of the ladder
WorkerIdle(h, i) ==
    LET b == h.bees[i]
        urgent == CountCells(h, hasDeadBee) > 0 \/ CountCells(h, IsHungryCell) > 3
        Crowd(n) == h.cells[n].occupyingBees
    IN  UNION {
           LET b1 == [b EXCEPT !.taskTimer = t, !.task = BeeTask.IDLE]
               dir == findWorkDirection(h, b1)
               Go(target) == StepTo([b1 EXCEPT !.lastWanderTime = b1.simulationTime],
                                    target)
           IN  IF b1.moveProgress >= 4 /\ b1.simulationTime - b1.lastWanderTime > 6
               THEN IF dir # NoCell THEN {SetBee(h, i, Go(dir))}
                    ELSE {SetBee(h, i, b1)} \cup
                         (IF WanderThrows(h, b1) THEN {SetBee(h, i, AssignCaught(b1))}
                          ELSE IF Len(WanderNeighbors(h, b1)) > 0
                          THEN {SetBee(h, i, Go(FirstMin(WanderNeighbors(h, b1), Crowd)))}
                          ELSE {SetBee(h, i, b1)})
               ELSE {SetBee(h, i, b1)} :
           t \in IF urgent THEN RandomRange(1, 3) ELSE RandomRange(4, 10)}

\* collect food and then nurse the larva at cell; no outcome without food
NurseWithFood(h, i, cell, timedCollect, timedNurse) ==
    IF ~h.bees[i].hasFood
    THEN {TakeCollecting(h, i, f, BeeTask.NURSING, cell, timedCollect) :
             f \in findFoodForFeeding(h) \ {NoCell}}
    ELSE {TakeTask(h, i, BeeTask.NURSING, cell, timedNurse)}

\* "no food available": the bee goes on to the next rung
NoFoodToNurse(h, i) == ~h.bees[i].hasFood /\ findFoodForFeeding(h) = {NoCell}

\* the nurse and crowd limits on a hungry larva
LarvaFree(h, cell) ==
    /\ CountAt(h, {BeeTask.NURSING}, cell, AnyBee) < 2
    /\ h.cells[cell].occupyingBees < 3
    /\ ~hasDeadBee(h.cells[cell])

\* the hungry larvae findHungryLarvae may return that a nurse can take
NursableLarvae(h) == {l \in findHungryLarvae(h) : l # NoCell /\ LarvaFree(h, l)}

\* some choice of findHungryLarvae leaves the bee without a larva to nurse
NursingFalls(h, i) ==
    \/ \E l \in findHungryLarvae(h) : ~(l # NoCell /\ LarvaFree(h, l))
    \/ NursableLarvae(h) # {} /\ NoFoodToNurse(h, i)

WorkerNearbyWork(h, i) ==
    LET b == h.bees[i]
        nearbyWork == scanNearbyForWork(h, b)
        idle == \/ nearbyWork.type = "nursing" /\ NoFoodToNurse(h, i)
                \/ nearbyWork.type = "capping" /\ isYoung(b)
                \/ nearbyWork.type \notin {"cleaning", "capping", "nursing", "undertaking"}
    IN  (CASE nearbyWork.type = "cleaning" ->
                {TakeTask(h, i, BeeTask.CLEANING, nearbyWork.cell, FALSE)}
           [] nearbyWork.type = "capping" /\ ~isYoung(b) ->
                {TakeTask(h, i, BeeTask.CAPPING_HONEY, nearbyWork.cell, FALSE)}
           [] nearbyWork.type = "nursing" ->
                NurseWithFood(h, i, nearbyWork.cell, FALSE, TRUE)
           [] nearbyWork.type = "undertaking" ->
                {TakeTask(h, i, BeeTask.UNDERTAKING, nearbyWork.cell, TRUE)}
           [] OTHER -> {})
        \cup (IF idle THEN WorkerIdle(h, i) ELSE {})

\* rest for a random time from the given range
TakeRest(h, i, lo, hi) ==
    {SetBee(h, i, [h.bees[i] EXCEPT !.restTimer = t, !.workDuration = 0,
                                    !.task = BeeTask.IDLE, !.taskTimer = t]) :
        t \in RandomRange(lo, hi)}

WorkerRest(h, i) ==
    IF needsRest(h.bees[i]) THEN TakeRest(h, i, 40, 80) ELSE WorkerNearbyWork(h, i)

\* older workers help with nursing
WorkerOlderNursing(h, i) ==
    (IF isYoung(h.bees[i]) THEN {}
     ELSE UNION {NurseWithFood(h, i, l, TRUE, TRUE) : l \in NursableLarvae(h)})
    \cup WorkerRest(h, i)

\* daytime tasks of older workers: capping, water, foraging
WorkerForage(h, i) ==
    LET b == h.bees[i]
        entrance == findNearestEntrance(h, BeePos(b))
    IN  IF FoodRatioAbove35(h)
        THEN {SetBee(h, i, [b EXCEPT !.task = BeeTask.IDLE, !.taskTimer = t]) :
                 t \in RandomRange(20, 40)}
        ELSE IF isEntranceCell(BeePos(b))
        THEN {SetBee(h, i, [b EXCEPT !.task = BeeTask.IDLE, !.taskTimer = t]) :
                 t \in RandomRange(30, 60)}
        ELSE IF entrance # NoCell THEN {TakeTask(h, i, BeeTask.FORAGING, entrance, TRUE)}
        ELSE WorkerOlderNursing(h, i)

WorkerWater(h, i) ==
    LET b == h.bees[i]
        stats == getStats(h)
        needsWater == AboveOptimal(h) \/ 20 * stats.water < stats.population
        entrance == findNearestEntrance(h, BeePos(b))
    IN  (IF needsWater /\ entrance # NoCell
         THEN {TakeTask(h, i, BeeTask.WATER_COLLECTION, entrance, TRUE)} ELSE {})
        \cup WorkerForage(h, i)

WorkerOlderTasks(h, i) ==
    LET b == h.bees[i]
        honeyCappingCell == findHoneyCappingCell(h)
    IN  IF ~isYoung(b) /\ getActivityMultiplier(h) > 50
        THEN (IF /\ honeyCappingCell # NoCell
                 /\ CountAt(h, {BeeTask.CAPPING_HONEY}, honeyCappingCell, AnyBee) = 0
              THEN {TakeTask(h, i, BeeTask.CAPPING_HONEY, honeyCappingCell, TRUE)}
              ELSE {})
             \cup WorkerWater(h, i)
        ELSE WorkerOlderNursing(h, i)

\* night-time behaviour (activity multiplier below 0.1)
WorkerNightIdle(h, i) ==
    {SetBee(h, i, [h.bees[i] EXCEPT !.task = BeeTask.IDLE, !.taskTimer = t]) :
        t \in RandomRange(10, 20)}

WorkerNightScan(h, i) ==
    LET b == h.bees[i]
        nearbyWork == scanNearbyForWork(h, b)
    IN  CASE nearbyWork.type = "cleaning" ->
               {TakeTask(h, i, BeeTask.CLEANING, nearbyWork.cell, TRUE)}
          [] nearbyWork.type = "nursing" /\ ~b.hasFood ->
               IF findFoodForFeeding(h) = {NoCell} THEN WorkerNightIdle(h, i)
               ELSE {TakeCollecting(h, i, f, BeeTask.NURSING, nearbyWork.cell, FALSE) :
                        f \in findFoodForFeeding(h)}
          [] nearbyWork.type = "undertaking" ->
               {TakeTask(h, i, BeeTask.UNDERTAKING, nearbyWork.cell, FALSE)}
          [] OTHER -> WorkerNightIdle(h, i)

WorkerNightNursing(h, i) ==
    UNION {NurseWithFood(h, i, l, FALSE, FALSE) : l \in NursableLarvae(h)}
    \cup WorkerNightScan(h, i)

WorkerNightTemperature(h, i) ==
    LET tempCell == findTemperatureRegulationSpot(h)
    IN  (IF /\ needsTemperatureRegulation(h)
            /\ tempCell # NoCell
            /\ CountAt(h, {BeeTask.TEMPERATURE_REGULATION}, tempCell, AnyBee) < 8
         THEN {TakeTask(h, i, BeeTask.TEMPERATURE_REGULATION, tempCell, FALSE)}
         ELSE {})
        \cup WorkerNightNursing(h, i)

WorkerNight(h, i) ==
    LET dirtyCell == findDirtyCell(h)
    IN  IF needsRest(h.bees[i]) THEN TakeRest(h, i, 60, 120)
        ELSE (IF /\ dirtyCell # NoCell
                 /\ CountAt(h, {BeeTask.CLEANING}, dirtyCell, AnyBee) = 0
              THEN {TakeTask(h, i, BeeTask.CLEANING, dirtyCell, TRUE)}
              ELSE {})
             \cup WorkerNightTemperature(h, i)

WorkerDayOrNight(h, i) ==
    IF getActivityMultiplier(h) < 10 THEN WorkerNight(h, i) ELSE WorkerOlderTasks(h, i)

\* hive maintenance around the clock: temperature, cleaning, undertaking
WorkerTemperature(h, i) ==
    LET tempCell == findTemperatureRegulationSpot(h)
    IN  (IF /\ needsTemperatureRegulation(h)
            /\ tempCell # NoCell
            /\ CountAt(h, {BeeTask.TEMPERATURE_REGULATION}, tempCell, AnyBee) < 5
         THEN {TakeTask(h, i, BeeTask.TEMPERATURE_REGULATION, tempCell, TRUE)}
         ELSE {})
        \cup WorkerDayOrNight(h, i)

WorkerCleaning(h, i) ==
    LET dirtyCell == findDirtyCell(h)
    IN  (IF /\ dirtyCell # NoCell
            /\ CountAt(h, {BeeTask.CLEANING}, dirtyCell, AnyBee) = 0
            /\ h.cells[dirtyCell].isDirty /\ isEmpty(h.cells[dirtyCell])
         THEN {TakeTask(h, i, BeeTask.CLEANING, dirtyCell, TRUE)}
         ELSE {})
        \cup WorkerTemperature(h, i)

maxUndertakersPerDeadBee(h) ==
    LET totalDeadBees == CountCells(h, hasDeadBee)
    IN  IF totalDeadBees >= 20 THEN 4
        ELSE IF totalDeadBees >= 10 THEN 3
        ELSE IF totalDeadBees >= 5 THEN 2
        ELSE 1

WorkerUndertaking(h, i) ==
    UNION {
       IF /\ d # NoCell
          /\ CountAt(h, {BeeTask.UNDERTAKING}, d, NotCarrying) < maxUndertakersPerDeadBee(h)
          /\ hasDeadBee(h.cells[d]) /\ ~isEntranceCell(d)
       THEN {TakeTask(h, i, BeeTask.UNDERTAKING, d, TRUE)}
       ELSE WorkerCleaning(h, i) :
       d \in findDeadBeeCell(h)}

\* young workers: attend or feed the queen, nurse hungry larvae; every other
\* worker, and a young one left without a larva, goes on to undertaking
WorkerYoungNursing(h, i) ==
    UNION {NurseWithFood(h, i, l, TRUE, FALSE) : l \in NursableLarvae(h)}

WorkerYoungTasks(h, i) ==
    LET b == h.bees[i]
        beesWithQueen == IF h.queen # 0
                         THEN CountAt(h, {BeeTask.ATTENDING_QUEEN, BeeTask.FEEDING_QUEEN}, QueenPos(h),
                                      AnyBee)
                         ELSE 0
        attend == {TakeTask(h, i, BeeTask.ATTENDING_QUEEN, QueenPos(h), TRUE)}
        feed == IF b.hasFood THEN {TakeTask(h, i, BeeTask.FEEDING_QUEEN, QueenPos(h), TRUE)}
                ELSE {TakeCollecting(h, i, f, BeeTask.FEEDING_QUEEN, b.nextTargetCell, TRUE) :
                         f \in findFoodForFeeding(h) \ {NoCell}}
    IN  (IF isYoung(b)
         THEN (IF h.queen # 0 /\ beesWithQueen < 3 THEN attend \cup feed ELSE {})
              \cup WorkerYoungNursing(h, i)
         ELSE {})
        \cup (IF ~isYoung(b) \/ NursingFalls(h, i) THEN WorkerUndertaking(h, i) ELSE {})

\* a task assignment whose queen takes up foraging like an older worker
assignTaskQueenForages(h, i) ==
    IF h.bees[i].type = BeeType.QUEEN THEN WorkerForage(h, i) ELSE WorkerYoungTasks(h, i)

\* Bee.assignTask
assignTask(h, i) ==
    IF h.bees[i].type = BeeType.QUEEN THEN QueenAssignTask(h, i) ELSE WorkerYoungTasks(h, i)

----------------------------------------------------------------------------
(* Bee.update (bee.js).  The movement speed of the modelled configurations
   reaches the cap of a quarter cell per frame. *)

PathBlocked(h, b) ==
    Len(b.path) > 0 /\ (b.path[1] \notin DOMAIN h.cells \/ isFull(h.cells[b.path[1]]))

\* "this.path = []; this.cancelTask(hive, 'path_blocked'); return null"
BlockedCancel(h, i) ==
    {[h |-> x, returned |-> TRUE] : x \in cancelTask([h EXCEPT !.bees[i].path = <<>>], i)}

\* the movement step; returned tells that update returned early
BeeMove(h, i) ==
    LET b == h.bees[i]
        arrived == [b EXCEPT !.moveProgress = 4, !.q = b.targetQ, !.r = b.targetR]
        Continue(hx) ==
            IF Len(hx.bees[i].path) > 0
            THEN {[h |-> SetBee(hx, i, startMovingToNextCell(hx.bees[i])),
                   returned |-> FALSE]}
            ELSE {[h |-> x, returned |-> FALSE] : x \in onReachDestination(hx, i)}
    IN  IF b.moveProgress < 4
        THEN IF b.moveProgress + 1 >= 4
             THEN IF PathBlocked(h, arrived) /\ arrived.targetCell = NoCell
                  THEN BlockedCancel(SetBee(h, i, arrived), i)
                  ELSE Continue(IF PathBlocked(h, arrived)
                                THEN BeeFindPath(SetBee(h, i, arrived), i)
                                ELSE SetBee(h, i, arrived))
             ELSE {[h |-> SetBee(h, i, [b EXCEPT !.moveProgress = @ + 1]),
                    returned |-> FALSE]}
        ELSE IF Len(b.path) > 0
        THEN IF PathBlocked(h, b)
             THEN IF b.targetCell # NoCell
                  THEN {[h |-> BeeFindPath(h, i), returned |-> FALSE]}
                  ELSE BlockedCancel(h, i)
             ELSE {[h |-> SetBee(h, i, startMovingToNextCell(b)), returned |-> FALSE]}
        ELSE {[h |-> h, returned |-> FALSE]}

\* "If idle and no task, assign new task"
BeeAssign(h, i) ==
    LET b == h.bees[i]
    IN  IF b.task = BeeTask.IDLE /\ b.taskTimer <= 0 /\ b.moveProgress >= 4 /\ b.restTimer <= 0
        THEN UNION {
               IF b.lastTaskAssignTime = 0
                  \/ b.simulationTime - b.lastTaskAssignTime >= checkInterval
               THEN assignTask(SetBee(h, i, [b EXCEPT !.lastTaskAssignTime =
                                                         b.simulationTime]), i)
               ELSE {h} :
               checkInterval \in calculateTaskCheckInterval(h)}
        ELSE {h}

\* the task timer, the movement and the task assignment of a living bee
BeeAct(h, i, deltaTime) ==
    LET b == h.bees[i]
        ticked == SetBee(h, i, [b EXCEPT !.taskTimer = @ - deltaTime * getSpeedMultiplier(b)])
        afterTimer == IF b.taskTimer > 0
                      THEN IF ticked.bees[i].taskTimer <= 0 THEN completeTask(ticked, i)
                           ELSE {ticked}
                      ELSE {h}
    IN  UNION {UNION {IF m.returned THEN {m.h} ELSE BeeAssign(m.h, i) :
                         m \in BeeMove(h1, i)} :
                  h1 \in afterTimer}

\* Bee.update: pairs of the hive afterwards and the result ("died" or null)
BeeUpdate(h, i, deltaTime) ==
    LET b0 == h.bees[i]
        b1 == [b0 EXCEPT !.age = @ + deltaTime,
                         !.isOutsideHive = IF b0.type = BeeType.QUEEN THEN FALSE ELSE @]
        rested == IF b1.restTimer > 0 THEN b1.restTimer - deltaTime ELSE b1.restTimer
        b2 == [b1 EXCEPT !.restTimer = rested,
                         !.workDuration = IF b1.task # BeeTask.IDLE /\ rested <= 0
                                          THEN @ + deltaTime
                                          ELSE IF b1.task = BeeTask.IDLE THEN 0 ELSE @,
                         !.taskStartTime = IF b1.task = BeeTask.IDLE THEN 0 ELSE @]
        h2 == SetBee(h, i, b2)
        b3 == [b2 EXCEPT !.lastPathCheck = b2.simulationTime]
        checks == /\ b2.task # BeeTask.IDLE /\ b2.targetCell # NoCell
                  /\ b2.simulationTime - b2.lastPathCheck > 4
        Died(x) == [h |-> x, result |-> "died"]
        Alive(xs) == {[h |-> x, result |-> "null"] : x \in xs}
        foragerDeath == IF /\ isVeryOld(b1) /\ b1.task = BeeTask.FORAGING /\ b1.isOutsideHive
                           /\ config.foragerDeathChance > 0
                        THEN {Died(SetBee(h, i, b1))} ELSE {}
    IN  IF b1.age >= b1.maxAge THEN {Died(SetBee(h, i, b1))}
        ELSE foragerDeath \cup
             (IF /\ b2.task # BeeTask.IDLE /\ b2.taskTimeout > 0
                 /\ b2.simulationTime - b2.taskStartTime > b2.taskTimeout
              THEN Alive({[x EXCEPT !.timedOut = Append(@, b2.id)] :
                             x \in cancelTask(h2, i)})
              ELSE IF checks /\ ~validateTaskTarget(h2, b3)
              THEN Alive(cancelTask(SetBee(h, i, b3), i))
              ELSE Alive(BeeAct(IF checks THEN SetBee(h, i, b3) ELSE h2, i, deltaTime)))

----------------------------------------------------------------------------
(* Hive.update and its parts (hive.js).  A hive value h carries the state
   variables and five logs of the tick: emerged, died, stored, collected (the
   food a bee has picked up) and timedOut (the bees whose task the timeout
   check has cancelled). *)

NewSummary(date) ==
    [date |-> date, eggsLaid |-> 0, beesHatched |-> 0, beesDied |-> 0,
     nectarCollected |-> 0, pollenCollected |-> 0, waterCollected |-> 0]

\* the day of an Invalid Date is NaN, which "!==" tells from every day
checkDayRollover(h, date) ==
    IF date.day = NaN \/ date.day # h.lastSummaryDay
    THEN [h EXCEPT !.dailySummaries = IF Len(@) + 1 > 7
                                      THEN Tail(Append(@, h.currentDaySummary))
                                      ELSE Append(@, h.currentDaySummary),
                   !.currentDaySummary = NewSummary(date),
                   !.lastSummaryDay = date.day]
    ELSE h

\* "reset occupation": only bees inside the hive and not mid-movement count
RebuildOccupancy(h) ==
    [h EXCEPT !.cells = [c \in DOMAIN h.cells |->
        [h.cells[c] EXCEPT !.occupyingBees =
            Cardinality({k \in 1..Len(h.bees) :
                /\ ~h.bees[k].isOutsideHive
                /\ h.bees[k].moveProgress >= 4
                /\ BeePos(h.bees[k]) = c})]] @@ << >>]

\* an emergence that leaves the designation of the queen cell in place
emergeBeeKeepsDesignation(h, c) ==
    LET isQueenCell == h.emergencyQueenCell # NoCell /\ h.emergencyQueenCell = c
        type == IF isQueenCell THEN BeeType.QUEEN ELSE BeeType.WORKER
        id == AcquireId(h.bees)
    IN  [h EXCEPT !.bees = Append(@, BeeReset(id, type, c[1], c[2])),
                  !.queen = IF isQueenCell THEN id ELSE @,
                  !.currentDaySummary.beesHatched = @ + 1,
                  !.cells[c] = [@ EXCEPT !.state = CellState.EMPTY, !.developmentTime = 0,
                                         !.maxDevelopmentTime = 0],
                  !.emerged = Append(@, [cell |-> c, type |-> type, id |-> id])]

\* an emergence that leaves the pupa's timer on the emptied cell
emergeBeeKeepsTimer(h, c) ==
    LET isQueenCell == h.emergencyQueenCell # NoCell /\ h.emergencyQueenCell = c
        type == IF isQueenCell THEN BeeType.QUEEN ELSE BeeType.WORKER
        id == AcquireId(h.bees)
    IN  [h EXCEPT !.bees = Append(@, BeeReset(id, type, c[1], c[2])),
                  !.queen = IF isQueenCell THEN id ELSE @,
                  !.emergencyQueenCell = IF isQueenCell THEN NoCell ELSE @,
                  !.currentDaySummary.beesHatched = @ + 1,
                  !.cells[c] = [@ EXCEPT !.state = CellState.EMPTY, !.developmentTime = 0],
                  !.emerged = Append(@, [cell |-> c, type |-> type, id |-> id])]

emergeBee(h, c) ==
    LET isQueenCell == h.emergencyQueenCell # NoCell /\ h.emergencyQueenCell = c
        type == IF isQueenCell THEN BeeType.QUEEN ELSE BeeType.WORKER
        id == AcquireId(h.bees)
    IN  [h EXCEPT !.bees = Append(@, BeeReset(id, type, c[1], c[2])),
                  !.queen = IF isQueenCell THEN id ELSE @,
                  !.emergencyQueenCell = IF isQueenCell THEN NoCell ELSE @,
                  !.currentDaySummary.beesHatched = @ + 1,
                  !.cells[c] = [@ EXCEPT !.state = CellState.EMPTY, !.developmentTime = 0,
                                         !.maxDevelopmentTime = 0],
                  !.emerged = Append(@, [cell |-> c, type |-> type, id |-> id])]

\* "Update all cells every frame", from the k-th cell of the map onwards
RECURSIVE CellPhase(_, _, _)
CellPhase(h, k, deltaTime) ==
    IF k > Len(CellOrder) THEN {h}
    ELSE LET c == CellOrder[k]
         IN  UNION {CellPhase(IF r.emerge
                              THEN emergeBee([h EXCEPT !.cells[c] = r.cell], c)
                              ELSE [h EXCEPT !.cells[c] = r.cell],
                              k + 1, deltaTime) :
                       r \in CellUpdate(h.cells[c], deltaTime)}

\* "Remove any dead bees from entrance cells"
EntranceCleanup(h) ==
    [h EXCEPT !.cells = [c \in DOMAIN h.cells |->
        IF isEntranceCell(c) /\ h.cells[c].deadBeeCount > 0
        THEN [h.cells[c] EXCEPT !.deadBeeCount = 0]
        ELSE h.cells[c]] @@ << >>]

RemoveAt(s, i) == SubSeq(s, 1, i - 1) \o SubSeq(s, i + 1, Len(s))

\* a removal that leaves hive.queen pointing at the dead queen
BeeDiedKeepsQueen(h, i) ==
    LET b == h.bees[i]
        pos == BeePos(b)
        marked == pos \in DOMAIN h.cells /\ ~b.isOutsideHive /\ ~isEntranceCell(pos)
        corpses == IF b.hasDeadBee THEN 2 ELSE 1
    IN  [h EXCEPT !.currentDaySummary.beesDied = @ + 1,
                  !.cells = IF marked
                            THEN [@ EXCEPT ![pos].deadBeeCount = @ + corpses]
                            ELSE @,
                  !.bees = RemoveAt(@, i),
                  !.died = Append(@, [id |-> b.id, type |-> b.type, cell |-> BeePos(b),
                                       outside |-> b.isOutsideHive])]

\* the handling of a bee whose update returned 'died'
\* a death that leaves the corpse in an entrance cell as well
BeeDiedAtEntranceToo(h, i) ==
    LET b == h.bees[i]
        pos == BeePos(b)
        marked == pos \in DOMAIN h.cells /\ ~b.isOutsideHive
        corpses == IF b.hasDeadBee THEN 2 ELSE 1
    IN  [h EXCEPT !.currentDaySummary.beesDied = @ + 1,
                  !.cells = IF marked
                            THEN [@ EXCEPT ![pos].deadBeeCount = @ + corpses]
                            ELSE @,
                  !.bees = RemoveAt(@, i),
                  !.queen = IF b.id = h.queen THEN 0 ELSE @,
                  !.died = Append(@, [id |-> b.id, type |-> b.type, cell |-> BeePos(b),
                                       outside |-> b.isOutsideHive])]

BeeDied(h, i) ==
    LET b == h.bees[i]
        pos == BeePos(b)
        marked == pos \in DOMAIN h.cells /\ ~b.isOutsideHive /\ ~isEntranceCell(pos)
        corpses == IF b.hasDeadBee THEN 2 ELSE 1
    IN  [h EXCEPT !.currentDaySummary.beesDied = @ + 1,
                  !.cells = IF marked
                            THEN [@ EXCEPT ![pos].deadBeeCount = @ + corpses]
                            ELSE @,
                  !.bees = RemoveAt(@, i),
                  !.queen = IF b.id = h.queen THEN 0 ELSE @,
                  !.died = Append(@, [id |-> b.id, type |-> b.type, cell |-> BeePos(b),
                                       outside |-> b.isOutsideHive])]

\* "Update all bees (iterate backwards for safe removal)", from index i down
RECURSIVE BeePhase(_, _, _)
BeePhase(h, i, deltaTime) ==
    IF i = 0 THEN {h}
    ELSE LET timed == SetBee(h, i, setSimulationTime(h.bees[i], h.simulationTime))
         IN  UNION {BeePhase(IF r.result = "died" THEN BeeDied(r.h, i) ELSE r.h,
                             i - 1, deltaTime) :
                       r \in BeeUpdate(timed, i, deltaTime)}

\* Hive.updateTemperature on the levels.  The ambient temperature is
\* 5, 15, 30 or 15 by season plus 5 * sin of the hour, and the result is
\* clamped to [ambient - 10, ambient + 15]: outside summer the clamp holds the
\* hive below 33 (cold); in summer the hive stays within a degree of the
\* optimum, above it only while the ambient temperature is 35 (noon).  With
\* the hour of an Invalid Date the ambient temperature is NaN, and so is the
\* temperature of the hive from then on ("nan")
updateTemperature(h) ==
    IF h.currentDate.hour = NaN \/ h.temperature = "nan" THEN {"nan"}
    ELSE IF h.currentDate.season # "summer" THEN {"cold"}
    ELSE IF h.currentDate.hour = 12
    THEN IF h.temperature = "warm" \/ h.simulationTime = 0 THEN {"warm"}
         ELSE {h.temperature, "warm"}
    ELSE IF h.temperature = "cool" THEN {"cool"}
    ELSE {h.temperature, "cool"}

\* squared distance from the centre (columns/2, rows/2), times four
CentreDist(c) ==
    (2 * c[1] - Columns) * (2 * c[1] - Columns) + (2 * c[2] - Rows) * (2 * c[2] - Rows)

\* a succession that prefers an egg to a young larva
createEmergencyQueenFromEggs(h) ==
    LET Young(c) == /\ h.cells[c].state \in {CellState.LARVAE_FED, CellState.LARVAE_HUNGRY}
                    /\ 2 * h.cells[c].developmentTime < h.cells[c].maxDevelopmentTime
        Egg(c) == h.cells[c].state = CellState.EGG
        larvaeCells == CellsWhere(h, Young)
        eggCells == CellsWhere(h, Egg)
    IN  IF Len(eggCells) > 0 THEN [h EXCEPT !.emergencyQueenCell = eggCells[1]]
        ELSE IF Len(larvaeCells) > 0
        THEN [h EXCEPT !.emergencyQueenCell = FirstMin(larvaeCells, CentreDist)]
        ELSE h

createEmergencyQueen(h) ==
    LET Young(c) == /\ h.cells[c].state \in {CellState.LARVAE_FED, CellState.LARVAE_HUNGRY}
                    /\ 2 * h.cells[c].developmentTime < h.cells[c].maxDevelopmentTime
        Egg(c) == h.cells[c].state = CellState.EGG
        larvaeCells == CellsWhere(h, Young)
        eggCells == CellsWhere(h, Egg)
    IN  IF Len(larvaeCells) = 0
        THEN IF Len(eggCells) > 0 THEN [h EXCEPT !.emergencyQueenCell = eggCells[1]]
             ELSE h
        ELSE [h EXCEPT !.emergencyQueenCell = FirstMin(larvaeCells, CentreDist)]

\* a succession check that names a queen cell whether the Queen lives or not
SuccessionWithQueen(h) ==
    IF Len(h.bees) > 0 THEN createEmergencyQueen(h) ELSE h

\* "Check if queen is dead and create emergency queen"
Succession(h) ==
    IF h.queen = 0 /\ Len(h.bees) > 0 THEN createEmergencyQueen(h) ELSE h

\* an update without the early return of the empty hive
HiveUpdateEmptyToo(h, deltaTime, date) ==
    LET h1 == checkDayRollover([h EXCEPT !.currentDate = date,
                                         !.simulationTime = @ + deltaTime], date)
    IN  UNION {
          UNION {{Succession([h3 EXCEPT !.temperature = t]) :
                     t \in updateTemperature(h3)} :
                   h3 \in BeePhase(EntranceCleanup(h2), Len(h2.bees), deltaTime)} :
          h2 \in CellPhase(RebuildOccupancy(h1), 1, deltaTime)}

\* Hive.update with a valid deltaTime and date
HiveUpdate(h, deltaTime, date) ==
    LET h1 == checkDayRollover([h EXCEPT !.currentDate = date,
                                         !.simulationTime = @ + deltaTime], date)
    IN  IF Len(h1.bees) = 0 THEN {h1}
        ELSE UNION {
               UNION {{Succession([h3 EXCEPT !.temperature = t]) :
                          t \in updateTemperature(h3)} :
                        h3 \in BeePhase(EntranceCleanup(h2), Len(h2.bees), deltaTime)} :
               h2 \in CellPhase(RebuildOccupancy(h1), 1, deltaTime)}

----------------------------------------------------------------------------
(* Configurations.  Durations are in half-seconds, the hourly and seasonal
   activity multipliers in tenths.  startDate is the date of the driver's
   clock at construction and hourTurn the simulation time at which that
   clock passes to the next hour. *)

HourlyActivityMultipliers ==
    << 0, 0, 0, 0, 0, 0, 2, 5, 8, 10, 12, 13, 15, 15, 14, 12, 10, 8, 5, 2, 0, 0, 0, 0 >>

SeasonalMultipliers == [spring |-> 15, summer |-> 20, fall |-> 8, winter |-> 1]

BaseConfig ==
    [columns |-> 2, rows |-> 3, entranceSide |-> "bottom", entranceCount |-> 1,
     startWithQueen |-> TRUE, initialWorkerCount |-> 1,
     initialHoneyStores |-> 0, initialPollenStores |-> 0,
     queenEggLayingInterval |-> 2, queenFeedingInterval |-> 4,
     workerForagingDuration |-> 4, workerNurseDuration |-> 4,
     waterCollectionDuration |-> 4,
     eggDuration |-> 40, larvaeDuration |-> 40, pupaDuration |-> 40,
     workerLifespan |-> 400, queenLifespan |-> 400,
     pollenToBeeBreadConversion |-> 80,
     hourlyActivityMultipliers |-> HourlyActivityMultipliers,
     seasonalMultipliers |-> SeasonalMultipliers,
     pathfindingEnabled |-> TRUE, preferEmptyRoutes |-> TRUE,
     separateBroodAndHoney |-> TRUE,
     foragerDeathChance |-> 1, maxBeesPerCell |-> 1,
     startDate |-> [day |-> 1, hour |-> 13, season |-> "summer"],
     hourTurn |-> 8]

\* a short-lived queen and fast brood: the queen lays two eggs and dies while
\* the first is a young larva
SuccessionConfig ==
    [BaseConfig EXCEPT !.eggDuration = 8, !.larvaeDuration = 8, !.pupaDuration = 2,
                       !.queenLifespan = 18]

\* the queen dies after her first egg has hatched; the larva emerges early
QuickConfig ==
    [BaseConfig EXCEPT !.eggDuration = 2, !.larvaeDuration = 4, !.pupaDuration = 2,
                       !.queenLifespan = 8]

\* a colony that dies out: the workers live six seconds, and the last bee
\* dies while brood is still developing
DoomedConfig ==
    [QuickConfig EXCEPT !.workerLifespan = 12]

Configurations == {BaseConfig, SuccessionConfig, QuickConfig, DoomedConfig}

DeltaTimes == {2}
InvalidDeltaTimes == {0, -2, NaN, Infinity, -Infinity}

\* what a caller can pass for currentDate that is not a sound Date: null, a
\* timestamp (a number), and a Date object that holds no time ("Invalid
\* Date", new Date(NaN)), whose getDate() and getHours() are NaN and whose
\* season getSeason takes for winter
NullDate == [null |-> TRUE]
TimestampDate == [number |-> 0]
InvalidDate == [day |-> NaN, hour |-> NaN, season |-> "winter"]

\* "!deltaTime || deltaTime <= 0 || !isFinite(deltaTime)" is false
ValidDeltaTime(deltaTime) ==
    /\ ~(deltaTime = 0 \/ deltaTime = NaN)
    /\ ~(deltaTime # NaN /\ deltaTime <= 0)
    /\ deltaTime \notin {Infinity, -Infinity, NaN}

\* "!currentDate || !(currentDate instanceof Date)" is false
ValidDate(date) == date # NullDate /\ DOMAIN date = {"day", "hour", "season"}

\* the driver's clock: simulationDate advances with the simulation time; a
\* clock that holds no time stays so
NextHour(date) ==
    IF date.hour = NaN THEN date
    ELSE IF date.hour = 23 THEN [date EXCEPT !.hour = 0, !.day = @ + 1]
    ELSE [date EXCEPT !.hour = @ + 1]

DateAfter(date, before, after) ==
    IF before < config.hourTurn /\ config.hourTurn <= after THEN NextHour(date)
    ELSE date

----------------------------------------------------------------------------
(* The constructor of Hive *)

initializeCells == [c \in Cells |-> NewCell] @@ << >>

\* the queen's starting cell: the centre, or one row up if that is an entrance
QueenStart ==
    LET centerCol == Columns \div 2
        centerRow == Rows \div 2
    IN  IF isEntranceCell(<<centerCol, centerRow>>) THEN <<centerCol, centerRow - 1>>
        ELSE <<centerCol, centerRow>>

\* ages of the initial workers: random in [0, workerLifespan / 2)
InitialAges == {0, config.workerLifespan \div 2 - 1}

\* the lists of bees initializeBees can build when k workers are added;
\* getRandomEmptyCell picks any cell whose state is empty
RECURSIVE InitialBees(_)
InitialBees(k) ==
    IF k = 0 THEN {<< BeeReset(1, BeeType.QUEEN, QueenStart[1], QueenStart[2]) >>}
    ELSE {Append(bs, [BeeReset(k + 1, BeeType.WORKER, c[1], c[2]) EXCEPT !.age = a]) :
             bs \in InitialBees(k - 1), c \in Cells, a \in InitialAges}

initializeBees ==
    IF config.startWithQueen THEN InitialBees(config.initialWorkerCount)
    ELSE {<< >>}

NoLog == [op |-> "new", valid |-> TRUE, emerged |-> << >>, died |-> << >>,
          start |-> NoCell, end |-> NoCell, cached |-> NoPath, path |-> NoPath,
          hit |-> FALSE, restored |-> << >>,
          before |-> << >>, returned |-> "none", arg |-> 0, date |-> << >>,
          timedOut |-> << >>, stored |-> << >>, collected |-> << >>]

Init ==
    /\ config \in Configurations
    /\ cells = initializeCells
    /\ bees \in initializeBees
    /\ queen = IF config.startWithQueen THEN 1 ELSE 0
    /\ emergencyQueenCell = NoCell
    /\ simulationTime = 0
    /\ currentDate = config.startDate
    /\ lastSummaryDay = config.startDate.day
    /\ currentDaySummary = NewSummary(config.startDate)
    /\ dailySummaries = << >>
    /\ temperature = "cool"
    /\ foragingHistory = << >>
    /\ pathCache = << >>
    /\ lastCall = NoLog
    /\ designated = {}

----------------------------------------------------------------------------
(* Actions *)

TheHive ==
    [cells |-> cells, bees |-> bees, queen |-> queen,
     emergencyQueenCell |-> emergencyQueenCell, simulationTime |-> simulationTime,
     currentDate |-> currentDate, lastSummaryDay |-> lastSummaryDay,
     currentDaySummary |-> currentDaySummary, dailySummaries |-> dailySummaries,
     temperature |-> temperature, foragingHistory |-> foragingHistory,
     pathCache |-> pathCache, emerged |-> << >>, died |-> << >>,
     timedOut |-> << >>, stored |-> << >>, collected |-> << >>]

\* the larva cells once named as emergencyQueenCell whose brood is still
\* developing
Designate(h) ==
    {c \in designated \cup
            (IF /\ h.emergencyQueenCell # NoCell
                /\ h.cells[h.emergencyQueenCell].state
                      \in {CellState.LARVAE_HUNGRY, CellState.LARVAE_FED}
             THEN {h.emergencyQueenCell} ELSE {}) :
        /\ isBrood(h.cells[c])
        /\ \A k \in 1..Len(h.emerged) : h.emerged[k].cell # c}

\* Hive.update(deltaTime, date) past its validation
Updated(deltaTime, date) ==
    /\ \E h \in HiveUpdate(TheHive, deltaTime, date) :
            /\ cells' = h.cells
            /\ bees' = h.bees
            /\ queen' = h.queen
            /\ emergencyQueenCell' = h.emergencyQueenCell
            /\ simulationTime' = h.simulationTime
            /\ currentDate' = h.currentDate
            /\ lastSummaryDay' = h.lastSummaryDay
            /\ currentDaySummary' = h.currentDaySummary
            /\ dailySummaries' = h.dailySummaries
            /\ temperature' = h.temperature
            /\ foragingHistory' = h.foragingHistory
            /\ pathCache' = h.pathCache
            /\ lastCall' = [NoLog EXCEPT !.op = "update", !.emerged = h.emerged,
                                         !.died = h.died, !.arg = deltaTime,
                                         !.date = date, !.timedOut = h.timedOut,
                                         !.stored = h.stored,
                                         !.collected = h.collected]
            /\ designated' = Designate(h)
    /\ UNCHANGED config

\* Hive.update(deltaTime, currentDate) as the driver calls it
Update ==
    /\ simulationTime < MaxTime
    /\ \E deltaTime \in DeltaTimes :
          Updated(deltaTime,
                  DateAfter(currentDate, simulationTime, simulationTime + deltaTime))

\* Hive.update with arguments its validation turns away: warns and returns
UpdateInvalid ==
    /\ simulationTime < MaxInvalidTime
    /\ \E deltaTime \in DeltaTimes \cup InvalidDeltaTimes,
          date \in {currentDate, NullDate, TimestampDate} :
          /\ ~(ValidDeltaTime(deltaTime) /\ ValidDate(date))
          /\ lastCall' = [NoLog EXCEPT !.op = "update", !.valid = FALSE,
                                       !.arg = deltaTime, !.date = date]
    /\ UNCHANGED <<config, cells, bees, queen, emergencyQueenCell, simulationTime,
                   currentDate, lastSummaryDay, currentDaySummary, dailySummaries,
                   temperature, foragingHistory, pathCache, designated>>

Next == Update \/ UpdateInvalid

Spec == Init /\ [][Next]_vars

\* the same hive with a caller whose clock may come to hold no time: it then
\* passes an Invalid Date, and keeps passing one from then on (DateAfter)
UpdateAnyDate ==
    /\ simulationTime < MaxTime
    /\ \E deltaTime \in DeltaTimes :
          \E date \in {DateAfter(currentDate, simulationTime, simulationTime + deltaTime)}
                      \cup (IF simulationTime < MaxInvalidTime THEN {InvalidDate} ELSE {}) :
              /\ ValidDeltaTime(deltaTime) /\ ValidDate(date)
              /\ Updated(deltaTime, date)

NextDates == UpdateAnyDate \/ UpdateInvalid

SpecDates == Init /\ [][NextDates]_vars

----------------------------------------------------------------------------
(* The hive under time acceleration: the driver multiplies the frame time   *)
(* by timeMultiplier, so that one update covers a minute of simulation      *)
(* while a bee still needs four updates to cross a cell.                    *)

\* long-lived bees and slow brood: no bee dies or emerges within MaxLongTime
LongConfig ==
    [BaseConfig EXCEPT !.workerLifespan = 8000, !.queenLifespan = 8000,
                       !.eggDuration = 4000, !.larvaeDuration = 4000,
                       !.pupaDuration = 4000]

LongDeltaTimes == {120}

InitLong ==
    /\ config = LongConfig
    /\ cells = initializeCells
    /\ bees \in initializeBees
    /\ queen = 1
    /\ emergencyQueenCell = NoCell
    /\ simulationTime = 0
    /\ currentDate = config.startDate
    /\ lastSummaryDay = config.startDate.day
    /\ currentDaySummary = NewSummary(config.startDate)
    /\ dailySummaries = << >>
    /\ temperature = "cool"
    /\ foragingHistory = << >>
    /\ pathCache = << >>
    /\ lastCall = NoLog
    /\ designated = {}

UpdateLong ==
    /\ simulationTime < MaxLongTime
    /\ \E deltaTime \in LongDeltaTimes :
          Updated(deltaTime,
                  DateAfter(currentDate, simulationTime, simulationTime + deltaTime))

NextLong == UpdateLong

\* the step of the clock in an update: simulationTime grows by deltaTime
Advance ==
    /\ simulationTime < MaxLongTime
    /\ \E deltaTime \in LongDeltaTimes : simulationTime' = simulationTime + deltaTime

\* the driver calls Hive.update on every animation frame: while updates are
\* taken at all the clock does not stand still for good.  Every step of
\* NextLong that changes simulationTime is an UpdateLong step.
SpecLong == InitLong /\ [][NextLong]_vars /\ WF_simulationTime(Advance)

----------------------------------------------------------------------------
(* Hive.findPath called directly (the routes of scenarios E and F): a hive  *)
(* without bees of its own whose cells fill and empty between the calls;    *)
(* the routes run between the first cell and any cell, in both directions  *)

\* two bees fit a cell, so a cell can be occupied without being full
PathConfig == [BaseConfig EXCEPT !.maxBeesPerCell = 2, !.startWithQueen = FALSE]

\* the number of bees the occupancy rebuild has found standing on the first k cells
RECURSIVE Standing(_, _)
Standing(cs, k) ==
    IF k = 0 THEN 0 ELSE Standing(cs, k - 1) + cs[CellOrder[k]].occupyingBees

InitPath ==
    /\ config = PathConfig
    /\ cells \in [Cells -> {[NewCell EXCEPT !.occupyingBees = n] :
                               n \in 0..maxBeesPerCell}]
    /\ Standing(cells, Len(CellOrder)) <= MaxStanding
    /\ bees = << >>
    /\ queen = 0
    /\ emergencyQueenCell = NoCell
    /\ simulationTime = 0
    /\ currentDate = config.startDate
    /\ lastSummaryDay = config.startDate.day
    /\ currentDaySummary = NewSummary(config.startDate)
    /\ dailySummaries = << >>
    /\ temperature = "cool"
    /\ foragingHistory = << >>
    /\ pathCache = << >>
    /\ \E b \in Cells : lastCall = [NoLog EXCEPT !.start = CellOrder[1], !.end = b]
    /\ designated = {}

\* hive.findPath(start, end, preferEmpty) between the two cells, either way
FindPath ==
    /\ \E ends \in {<<lastCall.start, lastCall.end>>, <<lastCall.end, lastCall.start>>},
          preferEmpty \in BOOLEAN :
          LET res == findPath(cells, pathCache, ends[1], ends[2], preferEmpty)
          IN  /\ pathCache' = res.cache
              /\ lastCall' = [NoLog EXCEPT !.op = "findPath", !.start = ends[1],
                                           !.end = ends[2],
                                           !.cached = CacheGet(pathCache, ends[1],
                                                               ends[2]),
                                           !.path = res.path, !.hit = res.hit]
    /\ UNCHANGED <<config, cells, bees, queen, emergencyQueenCell, simulationTime,
                   currentDate, lastSummaryDay, currentDaySummary, dailySummaries,
                   temperature, foragingHistory, designated>>

\* a later occupancy rebuild finds one bee more, or one bee less, on a cell
Reoccupy ==
    /\ \E c \in Cells, n \in 0..maxBeesPerCell :
          /\ n \in {cells[c].occupyingBees - 1, cells[c].occupyingBees + 1}
          /\ n > cells[c].occupyingBees => Standing(cells, Len(CellOrder)) < MaxStanding
          /\ cells' = [cells EXCEPT ![c].occupyingBees = n]
    /\ lastCall' = [NoLog EXCEPT !.op = "rebuild", !.start = lastCall.start,
                                  !.end = lastCall.end]
    /\ UNCHANGED <<config, bees, queen, emergencyQueenCell, simulationTime,
                   currentDate, lastSummaryDay, currentDaySummary, dailySummaries,
                   temperature, foragingHistory, pathCache, designated>>

NextPath == FindPath \/ Reoccupy

SpecPath == InitPath /\ [][NextPath]_vars

----------------------------------------------------------------------------
(* One cell on its own (cell.js): the methods of Cell called as the hive and *)
(* the bees call them, in any order, on a cell as the constructor of Hive   *)
(* leaves it.  lastCall records the method, its argument, the cell before   *)
(* the call and, for clean and removeDeadBee, the value returned.           *)

CellConfig ==
    [BaseConfig EXCEPT !.columns = 1, !.rows = 1, !.entranceCount = 0,
                       !.startWithQueen = FALSE,
                       !.eggDuration = 4, !.larvaeDuration = 6, !.pupaDuration = 4]

\* the same cell under getDefaultConfig, the configuration of main.js when
\* config.json cannot be loaded: it has no pollenToBeeBreadConversion
DefaultCellConfig == [CellConfig EXCEPT !.pollenToBeeBreadConversion = NaN]

\* "5 + Math.floor(Math.random() * 5)" units, in tenths, sampled at its ends
InitialStoreAmounts == {50, 90}

\* a cell after Hive.initializeCells: empty, or an initial honey or pollen store
InitialCells ==
    {NewCell} \cup
    {[NewCell EXCEPT !.state = st, !.contentAmount = a] :
        st \in {CellState.HONEY, CellState.POLLEN}, a \in InitialStoreAmounts}

InitCell ==
    /\ config \in {CellConfig, DefaultCellConfig}
    /\ cells \in [Cells -> InitialCells]
    /\ bees = << >>
    /\ queen = 0
    /\ emergencyQueenCell = NoCell
    /\ simulationTime = 0
    /\ currentDate = config.startDate
    /\ lastSummaryDay = config.startDate.day
    /\ currentDaySummary = NewSummary(config.startDate)
    /\ dailySummaries = << >>
    /\ temperature = "cool"
    /\ foragingHistory = << >>
    /\ pathCache = << >>
    /\ lastCall = NoLog
    /\ designated = {}

\* the cell c becomes c2 by the method op called with arg
CellCalled(c, op, arg, c2, returned) ==
    /\ cells' = [cells EXCEPT ![c] = c2]
    /\ lastCall' = [NoLog EXCEPT !.op = op, !.arg = arg, !.before = cells[c],
                                 !.returned = returned]
    /\ UNCHANGED <<config, bees, queen, emergencyQueenCell, simulationTime,
                   currentDate, lastSummaryDay, currentDaySummary, dailySummaries,
                   temperature, foragingHistory, pathCache, designated>>

\* cell.update(deltaTime) in the cell phase of Hive.update; on 'emerge' the
\* hive clears the cell (the last three lines of Hive.emergeBee)
CellTick ==
    \E c \in Cells, deltaTime \in DeltaTimes :
       \E r \in CellUpdate(cells[c], deltaTime) :
          CellCalled(c, "update", deltaTime,
                     IF r.emerge
                     THEN [r.cell EXCEPT !.state = CellState.EMPTY, !.developmentTime = 0,
                                         !.maxDevelopmentTime = 0]
                     ELSE r.cell,
                     IF r.emerge THEN "emerge" ELSE "null")

\* the queen lays: currentCell.setEgg()
CellSetEgg ==
    \E c \in Cells : CellCalled(c, "setEgg", 0, setEgg(cells[c]), "none")

\* a nurse feeds: cell.feedLarvae()
CellFeedLarvae ==
    \E c \in Cells : CellCalled(c, "feedLarvae", 0, feedLarvae(cells[c]), "none")

\* a forager unloads: cell.addNectar(amount), cell.addPollen(amount)
CellAddNectar ==
    \E c \in Cells, amount \in CargoAmounts :
       CellCalled(c, "addNectar", amount, addNectar(cells[c], amount), "none")

CellAddPollen ==
    \E c \in Cells, amount \in CargoAmounts :
       CellCalled(c, "addPollen", amount, addPollen(cells[c], amount), "none")

\* a water carrier unloads: cell.addWater(1)
CellAddWater ==
    \E c \in Cells : CellCalled(c, "addWater", 10, addWater(cells[c], 10), "none")

\* a bee collects food: cell.consumeHoney(0.5), cell.consumePollen(0.5)
CellConsumeHoney ==
    \E c \in Cells : CellCalled(c, "consumeHoney", 5, consumeHoney(cells[c], 5), "none")

CellConsumePollen ==
    \E c \in Cells : CellCalled(c, "consumePollen", 5, consumePollen(cells[c], 5), "none")

\* a cleaner arrives: cell.clean()
CellClean ==
    \E c \in Cells :
       CellCalled(c, "clean", 0, clean(cells[c]),
                  IF cleanReturns(cells[c]) THEN "true" ELSE "false")

\* a capper arrives: cell.capHoney()
CellCapHoney ==
    \E c \in Cells : CellCalled(c, "capHoney", 0, capHoney(cells[c]), "none")

\* a bee dies on the cell: cell.addDeadBee()
CellAddDeadBee ==
    \E c \in Cells :
       /\ cells[c].deadBeeCount < MaxCorpses
       /\ CellCalled(c, "addDeadBee", 0, addDeadBee(cells[c]), "none")

\* an undertaker arrives: cell.removeDeadBee()
CellRemoveDeadBee ==
    \E c \in Cells :
       CellCalled(c, "removeDeadBee", 0, removeDeadBee(cells[c]),
                  IF removeDeadBeeReturns(cells[c]) THEN "true" ELSE "false")

NextCell ==
    \/ CellTick
    \/ CellSetEgg
    \/ CellFeedLarvae
    \/ CellAddNectar
    \/ CellAddPollen
    \/ CellAddWater
    \/ CellConsumeHoney
    \/ CellConsumePollen
    \/ CellClean
    \/ CellCapHoney
    \/ CellAddDeadBee
    \/ CellRemoveDeadBee

SpecCell == InitCell /\ [][NextCell]_vars

----------------------------------------------------------------------------
(* distance called directly (utils.js) on the cells of a grid of four       *)
(* columns and four rows, which has even and odd columns on both sides of   *)
(* a cell                                                                    *)

GridConfig ==
    [BaseConfig EXCEPT !.columns = 4, !.rows = 4, !.entranceCount = 0,
                       !.startWithQueen = FALSE]

InitGrid ==
    /\ config = GridConfig
    /\ cells = initializeCells
    /\ bees = << >>
    /\ queen = 0
    /\ emergencyQueenCell = NoCell
    /\ simulationTime = 0
    /\ currentDate = config.startDate
    /\ lastSummaryDay = config.startDate.day
    /\ currentDaySummary = NewSummary(config.startDate)
    /\ dailySummaries = << >>
    /\ temperature = "cool"
    /\ foragingHistory = << >>
    /\ pathCache = << >>
    /\ lastCall = NoLog
    /\ designated = {}

\* distance(a.q, a.r, b.q, b.r) for two cells of the grid
Distance ==
    /\ \E a \in Cells, b \in Cells :
          lastCall' = [NoLog EXCEPT !.op = "distance", !.start = a, !.end = b,
                                    !.arg = distance(a, b)]
    /\ UNCHANGED <<config, cells, bees, queen, emergencyQueenCell, simulationTime,
                   currentDate, lastSummaryDay, currentDaySummary, dailySummaries,
                   temperature, foragingHistory, pathCache, designated>>

NextGrid == Distance

SpecGrid == InitGrid /\ [][NextGrid]_vars

----------------------------------------------------------------------------
(* Persistence (persistence.js, Hive.importData): the hive is saved and the  *)
(* snapshot is imported into a hive newly constructed from the same config. *)
(* Every saved number is finite, so JSON.stringify and JSON.parse hand it    *)
(* back unchanged; what the snapshot carries is the fields written here.    *)

\* the entry of data.cells for cell c
SavedCell(h, c) ==
    [q |-> c[1], r |-> c[2], state |-> h.cells[c].state,
     contentAmount |-> h.cells[c].contentAmount, isDirty |-> h.cells[c].isDirty,
     deadBeeCount |-> h.cells[c].deadBeeCount,
     developmentTime |-> h.cells[c].developmentTime,
     maxDevelopmentTime |-> h.cells[c].maxDevelopmentTime]

\* the entry of data.bees for a bee
SavedBee(b) ==
    [type |-> b.type, q |-> b.q, r |-> b.r, age |-> b.age, task |-> b.task,
     hasNectar |-> b.hasNectar, hasPollen |-> b.hasPollen, hasWater |-> b.hasWater,
     hasFood |-> b.hasFood]

\* PersistenceManager.save followed by load: the parsed snapshot
save(h) ==
    LET Kept(c) == ~isEmpty(h.cells[c]) \/ h.cells[c].isDirty \/ hasDeadBee(h.cells[c])
        kept == CellsWhere(h, Kept)
    IN  [simulationTime |-> h.simulationTime, currentDate |-> h.currentDate,
         config |-> config, stats |-> getStats(h),
         dailySummaries |-> h.dailySummaries,
         cells |-> [k \in 1..Len(kept) |-> SavedCell(h, kept[k])] @@ << >>,
         bees |-> [k \in 1..Len(h.bees) |-> SavedBee(h.bees[k])] @@ << >>]

\* "Apply saved cells", from the k-th entry onwards
RECURSIVE ApplySavedCells(_, _, _)
ApplySavedCells(cs, cellData, k) ==
    IF k > Len(cellData) THEN cs
    ELSE LET d == cellData[k]
             c == <<d.q, d.r>>
         IN  ApplySavedCells(
                IF c \in DOMAIN cs
                THEN [cs EXCEPT ![c] = [@ EXCEPT !.state = d.state,
                                                 !.contentAmount = d.contentAmount,
                                                 !.isDirty = d.isDirty,
                                                 !.deadBeeCount = d.deadBeeCount,
                                                 !.developmentTime = d.developmentTime,
                                                 !.maxDevelopmentTime = d.maxDevelopmentTime]]
                ELSE cs,
                cellData, k + 1)

\* "Restore bees", from the k-th entry onwards
RECURSIVE RestoreBees(_, _, _)
RestoreBees(h, beeData, k) ==
    IF k > Len(beeData) THEN h
    ELSE LET d == beeData[k]
             id == AcquireId(h.bees)
             bee == [BeeReset(id, d.type, d.q, d.r) EXCEPT
                        !.age = d.age, !.task = d.task, !.hasNectar = d.hasNectar,
                        !.hasPollen = d.hasPollen, !.hasWater = d.hasWater,
                        !.hasFood = d.hasFood]
         IN  RestoreBees([h EXCEPT !.bees = Append(@, bee),
                                   !.queen = IF bee.type = BeeType.QUEEN THEN id ELSE @],
                         beeData, k + 1)

\* Hive.importData(data) on the hive h
importData(h, data) ==
    RestoreBees([h EXCEPT !.simulationTime = data.simulationTime,
                          !.currentDate = data.currentDate,
                          !.bees = << >>,
                          !.queen = 0,
                          !.emergencyQueenCell = NoCell,
                          !.cells = ApplySavedCells(initializeCells, data.cells, 1),
                          !.dailySummaries = data.dailySummaries],
                data.bees, 1)

\* the hives new Hive(config) can construct
NewHives ==
    {[cells |-> initializeCells, bees |-> bs,
      queen |-> IF config.startWithQueen THEN 1 ELSE 0,
      emergencyQueenCell |-> NoCell, simulationTime |-> 0,
      currentDate |-> config.startDate, lastSummaryDay |-> config.startDate.day,
      currentDaySummary |-> NewSummary(config.startDate), dailySummaries |-> << >>,
      temperature |-> "cool", foragingHistory |-> << >>, pathCache |-> << >>,
      emerged |-> << >>, died |-> << >>, timedOut |-> << >>, stored |-> << >>,
      collected |-> << >>] :
        bs \in initializeBees}

\* save the hive and import the snapshot into a new hive of the same config;
\* the hive that was saved is left as it is
SaveAndImport ==
    /\ \E fresh \in NewHives :
          lastCall' = [NoLog EXCEPT !.op = "import",
                                    !.restored = importData(fresh, save(TheHive))]
    /\ UNCHANGED <<config, cells, bees, queen, emergencyQueenCell, simulationTime,
                   currentDate, lastSummaryDay, currentDaySummary, dailySummaries,
                   temperature, foragingHistory, pathCache, designated>>

NextPersist == Update \/ UpdateInvalid \/ SaveAndImport

SpecPersist == Init /\ [][NextPersist]_vars

----------------------------------------------------------------------------
(* Bee.cancelTask called directly (bee.js) on one worker of the base hive,   *)
(* standing in any cell with any of its tasks, as Bee.update and             *)
(* Bee.completeTask call it.  lastCall.before keeps the cells and the bee    *)
(* before each of the last two calls.                                        *)

\* the variables a direct call leaves as the constructor of Hive set them
Constructed ==
    /\ queen = 0
    /\ emergencyQueenCell = NoCell
    /\ simulationTime = 0
    /\ currentDate = config.startDate
    /\ lastSummaryDay = config.startDate.day
    /\ currentDaySummary = NewSummary(config.startDate)
    /\ dailySummaries = << >>
    /\ temperature = "cool"
    /\ foragingHistory = << >>
    /\ pathCache = << >>
    /\ lastCall = NoLog
    /\ designated = {}

\* the tasks a worker is cancelled in, with the task that follows the
\* collecting of food
CancelledTasks ==
    {[task |-> BeeTask.IDLE, next |-> "none"],
     [task |-> BeeTask.UNDERTAKING, next |-> "none"],
     [task |-> BeeTask.FORAGING, next |-> "none"],
     [task |-> BeeTask.NURSING, next |-> "none"],
     [task |-> BeeTask.COLLECTING_FOOD, next |-> BeeTask.NURSING]}

\* a worker at cell c with task t towards target; only an undertaker carries
\* a corpse, and an idle bee has no target
WorkerAt(c, t, target, carries, moving) ==
    LET idle == t.task = BeeTask.IDLE
        b == [NewBee(1, BeeType.WORKER, c[1], c[2]) EXCEPT
                 !.task = t.task,
                 !.targetCell = IF idle THEN NoCell ELSE target,
                 !.path = IF idle \/ target = c THEN << >> ELSE <<target>>,
                 !.nextTask = t.next,
                 !.nextTargetCell = IF t.next = "none" THEN NoCell ELSE target,
                 !.hasDeadBee = carries /\ t.task = BeeTask.UNDERTAKING,
                 !.moveProgress = IF moving /\ ~idle THEN 2 ELSE 4,
                 !.simulationTime = 2, !.lastTaskAssignTime = 2]
    IN  IF idle THEN b ELSE StartTask(b)

InitCancel ==
    /\ config = BaseConfig
    /\ \E c \in Cells, lying \in {0, 1} :
          cells = [initializeCells EXCEPT ![c].deadBeeCount =
                      IF isEntranceCell(c) THEN 0 ELSE lying]
    /\ \E c \in Cells, t \in CancelledTasks, target \in Cells,
          carries \in BOOLEAN, moving \in BOOLEAN :
          bees = << WorkerAt(c, t, target, carries, moving) >>
    /\ Constructed

\* this.cancelTask(hive, reason)
CancelTask ==
    /\ \E h \in cancelTask(TheHive, 1) :
          /\ cells' = h.cells
          /\ bees' = h.bees
    /\ lastCall' = [NoLog EXCEPT
                       !.op = "cancelTask",
                       !.before = (IF Len(lastCall.before) = 2
                                   THEN Tail(lastCall.before)
                                   ELSE lastCall.before)
                                  \o << [cells |-> cells, bee |-> bees[1]] >>]
    /\ UNCHANGED <<config, queen, emergencyQueenCell, simulationTime,
                   currentDate, lastSummaryDay, currentDaySummary, dailySummaries,
                   temperature, foragingHistory, pathCache, designated>>

NextCancel == CancelTask

SpecCancel == InitCancel /\ [][NextCancel]_vars

----------------------------------------------------------------------------
(* A hive in mid-life with brood to nurse: the queen has died, one larva is  *)
(* hungry, one cell holds honey and three young workers stand idle in the    *)
(* hive.                                                                     *)

NurseConfig ==
    [BaseConfig EXCEPT !.startWithQueen = FALSE, !.initialWorkerCount = 3,
                       !.initialHoneyStores = 1, !.maxBeesPerCell = 9]

\* the cell of the hungry larva and the cell of the honey store
LarvaCell == <<1, 1>>
HoneyCell == <<0, 0>>

InitNurse ==
    /\ config = NurseConfig
    /\ cells = [initializeCells EXCEPT
                   ![LarvaCell] = [@ EXCEPT !.state = CellState.LARVAE_HUNGRY,
                                            !.maxDevelopmentTime = config.larvaeDuration],
                   ![HoneyCell] = [@ EXCEPT !.state = CellState.HONEY,
                                            !.contentAmount = 90]]
    /\ bees \in {<< BeeReset(1, BeeType.WORKER, a[1], a[2]),
                    BeeReset(2, BeeType.WORKER, b[1], b[2]),
                    BeeReset(3, BeeType.WORKER, c[1], c[2]) >> :
                   a \in Cells, b \in Cells, c \in Cells}
    /\ Constructed

NextNurse == Update

SpecNurse == InitNurse /\ [][NextNurse]_vars

----------------------------------------------------------------------------
(* Hive.findAppropriateStorageCell called directly (hive.js), as a returning *)
(* forager calls it, on a hive whose cells are empty or hold honey and in    *)
(* which up to three foragers are already carrying their load to a cell.     *)
(* lastCall.end is the cell returned (NoCell for null).                      *)

\* the zoning toggle config.advanced.separateBroodAndHoney on and off
StoreConfigs ==
    {[BaseConfig EXCEPT !.initialWorkerCount = 3, !.maxBeesPerCell = 9,
                        !.separateBroodAndHoney = zoning] : zoning \in BOOLEAN}

\* a forager back in the hive: idle at the entrance (NoCell), or carrying
\* nectar to the storage cell it was given
Storer(id, target) ==
    LET b == [BeeReset(id, BeeType.WORKER, EntranceCells[1][1], EntranceCells[1][2])
                 EXCEPT !.age = config.workerLifespan \div 2]
    IN  IF target = NoCell THEN b
        ELSE StartTask([b EXCEPT !.task = BeeTask.STORING_FOOD, !.targetCell = target,
                                 !.path = <<target>>, !.hasNectar = TRUE])

\* the cells the foragers of the hive may be storing in
StoreTargets == {NoCell, <<0, 0>>, <<1, 0>>}

InitStore ==
    /\ config \in StoreConfigs
    /\ cells \in [Cells -> {NewCell, [NewCell EXCEPT !.state = CellState.HONEY,
                                                     !.contentAmount = 50]}]
    /\ bees \in {<< Storer(1, a), Storer(2, b), Storer(3, c) >> :
                   a \in StoreTargets, b \in StoreTargets, c \in StoreTargets}
    /\ Constructed

\* hive.findAppropriateStorageCell(this.hasNectar, this.hasPollen)
FindStorageCell ==
    /\ \E forNectar \in BOOLEAN, forPollen \in BOOLEAN :
          \E cell \in findAppropriateStorageCell(TheHive, forNectar, forPollen) :
             lastCall' = [NoLog EXCEPT !.op = "findAppropriateStorageCell",
                                       !.end = cell]
    /\ UNCHANGED <<config, cells, bees, queen, emergencyQueenCell, simulationTime,
                   currentDate, lastSummaryDay, currentDaySummary, dailySummaries,
                   temperature, foragingHistory, pathCache, designated>>

NextStore == FindStorageCell

SpecStore == InitStore /\ [][NextStore]_vars

----------------------------------------------------------------------------
(* Hive.createEmergencyQueen called directly (hive.js), as Hive.update calls *)
(* it when the queen is dead and bees are left, on a hive whose cells are    *)
(* empty or hold brood of several ages.  lastCall.start is                   *)
(* emergencyQueenCell before the call.                                       *)

\* what a cell of the brood nest may hold: nothing, a new egg, an older egg,
\* a young hungry larva, a larva past half of its development
BroodCells ==
    {NewCell,
     [NewCell EXCEPT !.state = CellState.EGG, !.maxDevelopmentTime = config.eggDuration],
     [NewCell EXCEPT !.state = CellState.EGG, !.maxDevelopmentTime = config.eggDuration,
                     !.developmentTime = config.eggDuration \div 2],
     [NewCell EXCEPT !.state = CellState.LARVAE_HUNGRY,
                     !.maxDevelopmentTime = config.larvaeDuration,
                     !.developmentTime = config.larvaeDuration \div 4],
     [NewCell EXCEPT !.state = CellState.LARVAE_FED,
                     !.maxDevelopmentTime = config.larvaeDuration,
                     !.developmentTime = (3 * config.larvaeDuration) \div 4]}

InitSuccession ==
    /\ config = BaseConfig
    /\ cells \in [Cells -> BroodCells]
    /\ bees = << BeeReset(2, BeeType.WORKER, 0, 0) >>
    /\ queen = 0
    /\ emergencyQueenCell \in {NoCell} \cup {c \in Cells : isBrood(cells[c])}
    /\ simulationTime = 0
    /\ currentDate = config.startDate
    /\ lastSummaryDay = config.startDate.day
    /\ currentDaySummary = NewSummary(config.startDate)
    /\ dailySummaries = << >>
    /\ temperature = "cool"
    /\ foragingHistory = << >>
    /\ pathCache = << >>
    /\ lastCall = NoLog
    /\ designated = {}

\* "if (!this.queen && this.bees.length > 0) this.createEmergencyQueen()"
CreateEmergencyQueen ==
    /\ queen = 0 /\ Len(bees) > 0
    /\ emergencyQueenCell' = createEmergencyQueen(TheHive).emergencyQueenCell
    /\ lastCall' = [NoLog EXCEPT !.op = "createEmergencyQueen",
                                 !.start = emergencyQueenCell]
    /\ UNCHANGED <<config, cells, bees, queen, simulationTime,
                   currentDate, lastSummaryDay, currentDaySummary, dailySummaries,
                   temperature, foragingHistory, pathCache, designated>>

NextSuccession == CreateEmergencyQueen

SpecSuccession == InitSuccession /\ [][NextSuccession]_vars

----------------------------------------------------------------------------
(* The hive on a cold night under time acceleration: the workers are given  *)
(* their tasks by the night branch of assignTask.                           *)

\* the long-lived colony at nine in the evening in the fall
NightConfig ==
    [LongConfig EXCEPT !.startDate = [day |-> 1, hour |-> 21, season |-> "fall"]]

InitNight ==
    /\ config = NightConfig
    /\ cells = initializeCells
    /\ bees \in initializeBees
    /\ queen = 1
    /\ emergencyQueenCell = NoCell
    /\ simulationTime = 0
    /\ currentDate = config.startDate
    /\ lastSummaryDay = config.startDate.day
    /\ currentDaySummary = NewSummary(config.startDate)
    /\ dailySummaries = << >>
    /\ temperature = "cool"
    /\ foragingHistory = << >>
    /\ pathCache = << >>
    /\ lastCall = NoLog
    /\ designated = {}

\* the driver at a lower acceleration: an update covers ten seconds
NightDeltaTimes == {20}

UpdateNight ==
    /\ simulationTime < MaxNightTime
    /\ \E deltaTime \in NightDeltaTimes :
          Updated(deltaTime,
                  DateAfter(currentDate, simulationTime, simulationTime + deltaTime))

NextNight == UpdateNight

SpecNight == InitNight /\ [][NextNight]_vars

----------------------------------------------------------------------------
(* A hive in mid-life with a larva to feed from a single store: the queen   *)
(* has died, one larva is hungry, one cell holds food in one of the states  *)
(* findFoodForFeeding accepts and one worker stands in the hive.            *)

FeedConfig == [NurseConfig EXCEPT !.initialWorkerCount = 1]

\* the states and amounts of the store: more than half a unit of food
FoodStates ==
    {CellState.HONEY, CellState.HONEY_COMPLETE, CellState.HONEY_CAPPED,
     CellState.POLLEN, CellState.BEE_BREAD}
FoodAmounts == {10, 90}

InitFeed ==
    /\ config = FeedConfig
    /\ \E state \in FoodStates, amount \in FoodAmounts :
          cells = [initializeCells EXCEPT
                      ![LarvaCell] = [@ EXCEPT !.state = CellState.LARVAE_HUNGRY,
                                               !.maxDevelopmentTime = config.larvaeDuration],
                      ![HoneyCell] = [@ EXCEPT !.state = state,
                                               !.contentAmount = amount]]
    /\ bees \in {<< BeeReset(1, BeeType.WORKER, a[1], a[2]) >> : a \in Cells}
    /\ Constructed

NextFeed == Update

SpecFeed == InitFeed /\ [][NextFeed]_vars

----------------------------------------------------------------------------
(* A hive in mid-life with a corpse to carry out: the queen has died, a      *)
(* corpse lies in a cell off the entrance and two workers stand idle, one    *)
(* young and one at the end of its life.  The driver ticks in half seconds,  *)
(* so that a bee walks a cell between two validations of its target.         *)

UndertakeConfig ==
    [BaseConfig EXCEPT !.startWithQueen = FALSE, !.initialWorkerCount = 2,
                       !.maxBeesPerCell = 9]

\* the age of the old worker: it dies in the course of the run
OldAges == {390, 396}

InitUndertake ==
    /\ config = UndertakeConfig
    /\ \E c \in Cells, lying \in {1, 2} :
          /\ ~isEntranceCell(c)
          /\ cells = [initializeCells EXCEPT ![c].deadBeeCount = lying]
    /\ bees \in {<< BeeReset(1, BeeType.WORKER, a[1], a[2]),
                    [BeeReset(2, BeeType.WORKER, b[1], b[2]) EXCEPT !.age = old] >> :
                   a \in Cells, b \in Cells, old \in OldAges}
    /\ Constructed

UndertakeDeltaTimes == {1}

UpdateUndertake ==
    /\ simulationTime < MaxUndertakeTime
    /\ \E deltaTime \in UndertakeDeltaTimes :
          Updated(deltaTime,
                  DateAfter(currentDate, simulationTime, simulationTime + deltaTime))

NextUndertake == UpdateUndertake

SpecUndertake == InitUndertake /\ [][NextUndertake]_vars

----------------------------------------------------------------------------
(* A hive in mid-life with one egg: the queen has died, a cell holds an egg  *)
(* and a worker stands idle in the hive, young or at the end of its life,    *)
(* with or without food for a larva.  The brood is fast, so that the egg     *)
(* emerges within the run whether a nurse feeds the larva or not.            *)

BroodConfig ==
    [NurseConfig EXCEPT !.initialWorkerCount = 1, !.eggDuration = 8,
                        !.larvaeDuration = 16, !.pupaDuration = 4]

\* the development of the egg at the start and the age of the worker
EggTimes == {0, 6}
WorkerAges == {0, 380}

InitBrood ==
    /\ config = BroodConfig
    /\ \E dev \in EggTimes :
          cells = [initializeCells EXCEPT
                      ![LarvaCell] = [@ EXCEPT !.state = CellState.EGG,
                                               !.developmentTime = dev,
                                               !.maxDevelopmentTime = config.eggDuration]]
    /\ bees \in {<< [BeeReset(1, BeeType.WORKER, a[1], a[2]) EXCEPT
                        !.age = old, !.hasFood = food] >> :
                   a \in Cells, old \in WorkerAges, food \in BOOLEAN}
    /\ Constructed

UpdateBrood ==
    /\ simulationTime < MaxBroodTime
    /\ \E deltaTime \in DeltaTimes :
          Updated(deltaTime,
                  DateAfter(currentDate, simulationTime, simulationTime + deltaTime))

NextBrood == UpdateBrood

\* the step of the clock in an update of the brood run
AdvanceBrood ==
    /\ simulationTime < MaxBroodTime
    /\ \E deltaTime \in DeltaTimes : simulationTime' = simulationTime + deltaTime

\* the driver calls Hive.update on every animation frame: while updates are
\* taken at all the clock does not stand still for good
SpecBrood == InitBrood /\ [][NextBrood]_vars /\ WF_simulationTime(AdvanceBrood)

----------------------------------------------------------------------------
(* Hive.findPath called directly on a grid of four columns and four rows in  *)
(* which no cell is full: two bees fit a cell and at most one bee stands on  *)
(* a cell.  The routes run between two cells of the grid, in both            *)
(* directions, with preferEmpty off and on.  lastCall.arg is preferEmpty.    *)

RouteConfig == [GridConfig EXCEPT !.maxBeesPerCell = 2]

\* the cells a bee may stand on in the route specification
RouteStands == {<<1, 1>>, <<2, 2>>}

InitRoute ==
    /\ config = RouteConfig
    /\ \E stands \in SUBSET RouteStands :
          cells = [c \in Cells |->
                      [NewCell EXCEPT !.occupyingBees = IF c \in stands THEN 1 ELSE 0]]
                  @@ << >>
    /\ bees = << >>
    /\ queen = 0
    /\ emergencyQueenCell = NoCell
    /\ simulationTime = 0
    /\ currentDate = config.startDate
    /\ lastSummaryDay = config.startDate.day
    /\ currentDaySummary = NewSummary(config.startDate)
    /\ dailySummaries = << >>
    /\ temperature = "cool"
    /\ foragingHistory = << >>
    /\ pathCache = << >>
    /\ \E a \in Cells, b \in Cells : lastCall = [NoLog EXCEPT !.start = a, !.end = b]
    /\ designated = {}

\* hive.findPath(start, end, preferEmpty) between the two cells, either way
FindRoute ==
    /\ \E ends \in {<<lastCall.start, lastCall.end>>, <<lastCall.end, lastCall.start>>},
          preferEmpty \in BOOLEAN :
          LET res == findPath(cells, pathCache, ends[1], ends[2], preferEmpty)
          IN  /\ pathCache' = res.cache
              /\ lastCall' = [NoLog EXCEPT !.op = "findPath", !.start = ends[1],
                                           !.end = ends[2], !.arg = preferEmpty,
                                           !.path = res.path, !.hit = res.hit]
    /\ UNCHANGED <<config, cells, bees, queen, emergencyQueenCell, simulationTime,
                   currentDate, lastSummaryDay, currentDaySummary, dailySummaries,
                   temperature, foragingHistory, designated>>

NextRoute == FindRoute

SpecRoute == InitRoute /\ [][NextRoute]_vars

----------------------------------------------------------------------------
(* PathfindingCache.get and PathfindingCache.set called directly             *)
(* (performance-optimizer.js) on the cache of a hive, for routes from the    *)
(* first cell to any cell.  lastCall.restored is the list of the keys of     *)
(* the set calls made so far; lastCall.path is the path stored or returned.  *)

\* the paths stored for a route: the two cells, or a detour over the first cell
RoutePaths(start, end) == {<<start, end>>, <<start, start, end>>}

InitCache ==
    /\ config = PathConfig
    /\ cells = initializeCells
    /\ bees = << >>
    /\ Constructed

\* this.pathfindingCache.set(start, end, path)
CacheSetCall ==
    /\ Len(lastCall.restored) < MaxCacheCalls
    /\ \E end \in Cells :
          \E path \in RoutePaths(CellOrder[1], end) :
             /\ pathCache' = CacheSet(pathCache, CellOrder[1], end, path)
             /\ lastCall' = [NoLog EXCEPT
                                !.op = "set", !.start = CellOrder[1], !.end = end,
                                !.path = path,
                                !.restored = Append(lastCall.restored,
                                                    getKey(CellOrder[1], end))]
    /\ UNCHANGED <<config, cells, bees, queen, emergencyQueenCell, simulationTime,
                   currentDate, lastSummaryDay, currentDaySummary, dailySummaries,
                   temperature, foragingHistory, designated>>

\* this.pathfindingCache.get(start, end)
CacheGetCall ==
    /\ \E end \in Cells :
          lastCall' = [NoLog EXCEPT
                          !.op = "get", !.start = CellOrder[1], !.end = end,
                          !.path = CacheGet(pathCache, CellOrder[1], end),
                          !.restored = lastCall.restored]
    /\ UNCHANGED <<config, cells, bees, queen, emergencyQueenCell, simulationTime,
                   currentDate, lastSummaryDay, currentDaySummary, dailySummaries,
                   temperature, foragingHistory, pathCache, designated>>

NextCache == CacheSetCall \/ CacheGetCall

SpecCache == InitCache /\ [][NextCache]_vars

----------------------------------------------------------------------------
(* Properties of the colony (hive.js, bee.js) *)

\* the young larvae: larva cells in the first half of their development
YoungLarvae ==
    {c \in DOMAIN cells :
        /\ cells[c].state \in {CellState.LARVAE_HUNGRY, CellState.LARVAE_FED}
        /\ 2 * cells[c].developmentTime < cells[c].maxDevelopmentTime}

QueenBees == {k \in 1..Len(bees) : bees[k].type = BeeType.QUEEN}

QueenDiedInCall ==
    \E k \in 1..Len(lastCall.died) : lastCall.died[k].type = BeeType.QUEEN

\* C1: after every update getStats reports beesInside + beesOutside =
\* population = the length of the bee list, and workers plus one for a set
\* hive.queen = population
StatsAddUp ==
    LET stats == getStats(TheHive)
    IN  /\ stats.beesInside + stats.beesOutside = stats.population
        /\ stats.population = Len(bees)
        /\ stats.workers + (IF queen # 0 THEN 1 ELSE 0) = stats.population

\* an update has left a forager outside next to bees inside
StatsAddUpWitness ==
    /\ lastCall.op = "update"
    /\ \E k \in 1..Len(bees) : bees[k].isOutsideHive
    /\ \E k \in 1..Len(bees) : ~bees[k].isOutsideHive
    /\ getStats(TheHive).beesOutside > 0

\* C2: after the occupancy rebuild no cell holds more than maxBeesPerCell
\* occupants
CellCapacityRespected ==
    \A c \in DOMAIN cells : cells[c].occupyingBees <= maxBeesPerCell

\* C5: immediately after any update the queen, if alive, is not outside
QueenInside ==
    \A k \in 1..Len(bees) : bees[k].type = BeeType.QUEEN => ~bees[k].isOutsideHive

\* an update has left the queen inside while a forager is outside
QueenInsideWitness ==
    /\ lastCall.op = "update"
    /\ queen # 0
    /\ \E k \in 1..Len(bees) : bees[k].type = BeeType.QUEEN /\ ~bees[k].isOutsideHive
    /\ \E k \in 1..Len(bees) : bees[k].isOutsideHive

\* C6: neither the queen's cell (q, r) nor the cell she is moving to
\* (targetQ, targetR) is ever an entrance cell
QueenOffEntrances ==
    \A k \in 1..Len(bees) :
        bees[k].type = BeeType.QUEEN =>
            /\ ~isEntranceCell(BeePos(bees[k]))
            /\ ~isEntranceCell(<<bees[k].targetQ, bees[k].targetR>>)

\* C7: at most one bee of type queen is in the bee list, and hive.queen is
\* non-null exactly when there is one, and then refers to it
OneQueen ==
    /\ Cardinality(QueenBees) <= 1
    /\ (queen # 0) <=> (QueenBees # {})
    /\ \A k \in QueenBees : bees[k].id = queen

\* a new queen has emerged from the emergency queen cell
OneQueenWitness ==
    /\ \E k \in 1..Len(lastCall.emerged) :
          lastCall.emerged[k].type = BeeType.QUEEN /\ lastCall.emerged[k].id = queen
    /\ Len(bees) >= 2

\* C8: emergencyQueenCell, if set, names a cell of the grid in a brood state
QueenCellIsBrood ==
    emergencyQueenCell # NoCell =>
        /\ emergencyQueenCell \in DOMAIN cells
        /\ isBrood(cells[emergencyQueenCell])

\* the designated larva has been capped and is still the emergency queen cell
QueenCellIsBroodWitness ==
    /\ emergencyQueenCell # NoCell
    /\ cells[emergencyQueenCell].state = CellState.CAPPED_BROOD
    /\ queen = 0

\* C9: when the sole queen dies in an update that leaves another bee alive
\* and a young larva in the comb, emergencyQueenCell names a young larva when
\* the call returns
SuccessionStarts ==
    (QueenDiedInCall /\ Len(bees) > 0 /\ YoungLarvae # {}) =>
        emergencyQueenCell \in YoungLarvae

\* the queen has just died next to a young larva, an egg and a worker
SuccessionStartsWitness ==
    /\ QueenDiedInCall
    /\ Len(bees) > 0
    /\ YoungLarvae # {}
    /\ \E c \in DOMAIN cells : cells[c].state = CellState.EGG
    /\ emergencyQueenCell \in YoungLarvae

\* C10: the bee that emerges from a larva cell once named emergencyQueenCell
\* is a queen
DesignatedEmergesQueen ==
    [][\A k \in 1..Len(lastCall'.emerged) :
          lastCall'.emerged[k].cell \in designated =>
              lastCall'.emerged[k].type = BeeType.QUEEN]_vars

----------------------------------------------------------------------------
(* Properties of Hive.findPath *)

\* the cells a route from the cells in seen can reach when only its
\* destination may be full
RECURSIVE RouteClosure(_, _, _)
RouteClosure(cs, end, seen) ==
    LET more == {n \in DOMAIN cs :
                   /\ n = end \/ ~isFull(cs[n])
                   /\ \E c \in seen \ {end} : n \in SeqToSet(getHexNeighbors(c))}
    IN  IF more \subseteq seen THEN seen ELSE RouteClosure(cs, end, seen \cup more)

RouteExists(cs, start, end) == end \in RouteClosure(cs, end, {start})

\* a route from start to end, cell by neighbouring cell, with no full cell
\* strictly between its ends
IsClearRoute(cs, path, start, end) ==
    /\ Len(path) > 0
    /\ path[1] = start
    /\ path[Len(path)] = end
    /\ \A k \in 1..(Len(path) - 1) : path[k + 1] \in SeqToSet(getHexNeighbors(path[k]))
    /\ \A k \in 2..(Len(path) - 1) : ~isFull(cs[path[k]])

\* the cache entry a call found has a full cell before its destination
FoundStale ==
    /\ lastCall.op = "findPath"
    /\ lastCall.cached # NoPath
    /\ \E k \in 1..(Len(lastCall.cached) - 1) : isFull(cells[lastCall.cached[k]])

\* C3: a path findPath returns, computed or cached, has no full cell strictly
\* between start and destination, and findPath returns null when the
\* destination can only be reached through full cells
PathAvoidsFullCells ==
    lastCall.op = "findPath" =>
        /\ lastCall.path # NoPath =>
              IsClearRoute(cells, lastCall.path, lastCall.start, lastCall.end)
        /\ ~RouteExists(cells, lastCall.start, lastCall.end) => lastCall.path = NoPath

\* a cached detour around a full cell has been served again
PathAvoidsFullCellsWitness ==
    /\ lastCall.op = "findPath"
    /\ lastCall.hit
    /\ Len(lastCall.path) > distance(lastCall.start, lastCall.end) + 1
    /\ \E c \in DOMAIN cells : isFull(cells[c])

\* C4: when a cell before the destination of the path cached for (A, B) has
\* become full, findPath(A, B) runs the search again: it returns null, or a
\* path with no full cell between its ends that replaces the cache entry
StalePathRecomputed ==
    FoundStale =>
        /\ ~lastCall.hit
        /\ \/ lastCall.path = NoPath
           \/ /\ IsClearRoute(cells, lastCall.path, lastCall.start, lastCall.end)
              /\ CacheGet(pathCache, lastCall.start, lastCall.end) = lastCall.path

\* a blocked cached path has been replaced by a different one
StalePathRecomputedWitness ==
    /\ FoundStale
    /\ lastCall.path # NoPath
    /\ lastCall.path # lastCall.cached
    /\ CacheGet(pathCache, lastCall.start, lastCall.end) = lastCall.path

\* C14: a valid update of a hive without bees changes no cell and creates no
\* bee, and getStats then reports zero for population, workers, brood,
\* honey, pollen, water, beesInside, beesOutside and foragingRate
EmptyHiveIdle ==
    [][(Len(bees) = 0 /\ lastCall'.op = "update" /\ lastCall'.valid) =>
          /\ cells' = cells
          /\ bees' = bees
          /\ queen' = queen
          /\ emergencyQueenCell' = emergencyQueenCell
          /\ getStats(TheHive)' = ZeroStats]_vars

\* a hive without bees that holds brood has been updated
EmptyHiveIdleWitness ==
    /\ Len(bees) = 0
    /\ lastCall.op = "update"
    /\ lastCall.valid
    /\ lastCall.died = << >>
    /\ \E c \in DOMAIN cells : isBrood(cells[c]) /\ cells[c].developmentTime > 0

\* a Date that denotes a time
WellFormedDate(date) ==
    /\ DOMAIN date = {"day", "hour", "season"}
    /\ date.day # NaN
    /\ date.hour # NaN

\* a deltaTime that is zero, negative, NaN or infinite
UnsoundDeltaTime(deltaTime) ==
    \/ deltaTime \in {0, NaN, Infinity, -Infinity}
    \/ deltaTime < 0

\* C15: an update called with a deltaTime that is zero, negative, NaN or
\* infinite, or with a currentDate that is not a well-formed Date, leaves
\* simulationTime, currentDate, the daily summaries, the cells and the bees
\* as they were
InvalidUpdateIsNoOp ==
    [][(/\ lastCall'.op = "update"
        /\ \/ UnsoundDeltaTime(lastCall'.arg)
           \/ ~WellFormedDate(lastCall'.date)) =>
          UNCHANGED <<simulationTime, currentDate, lastSummaryDay, currentDaySummary,
                      dailySummaries, cells, bees>>]_vars

\* the time a task started by Horizon has to end in before the updates stop:
\* the largest budget and one update more
Horizon == MaxLongTime - (600 + 120)

\* the identities the bee pool hands out in a hive of the long configuration
LongBeeIds == 1..(LongConfig.initialWorkerCount + 1)

\* the worker id has a task
WorkerBusy(id) ==
    \E k \in 1..Len(bees) :
        /\ bees[k].id = id
        /\ bees[k].type = BeeType.WORKER
        /\ bees[k].task # BeeTask.IDLE

\* the worker id is gone, is idle, or has been idle in the last update: an
\* idle bee that takes a task notes the time of it in lastTaskAssignTime
WorkerIdled(id) ==
    \A k \in 1..Len(bees) :
        (bees[k].id = id /\ bees[k].type = BeeType.WORKER) =>
            \/ bees[k].task = BeeTask.IDLE
            \/ bees[k].lastTaskAssignTime = simulationTime

\* a bee with a task has a budget of 60 to 300 seconds at its next update,
\* and no update leaves a task running that has outlived its budget
BudgetKept ==
    \A k \in 1..Len(bees) :
        bees[k].task # BeeTask.IDLE =>
            /\ setSimulationTime(bees[k], simulationTime + 1).taskTimeout \in 120..600
            /\ bees[k].taskStartTime # 0 =>
                  simulationTime - bees[k].taskStartTime <= bees[k].taskTimeout

\* C19: while Hive.update keeps being called every worker with a task comes
\* to be idle or is removed; a task has a budget of 60 to 300 seconds at
\* every update of its bee and is cancelled by the first update that finds
\* it older than its budget
TasksEnd ==
    /\ []BudgetKept
    /\ \A id \in LongBeeIds :
          (WorkerBusy(id) /\ simulationTime <= Horizon) ~> WorkerIdled(id)

\* the timeout check has cancelled the task of a worker, which is idle now
TasksEndWitness ==
    /\ lastCall.op = "update"
    /\ \E n \in 1..Len(lastCall.timedOut), k \in 1..Len(bees) :
          /\ bees[k].id = lastCall.timedOut[n]
          /\ bees[k].type = BeeType.WORKER
          /\ bees[k].task = BeeTask.IDLE
          /\ bees[k].taskTimeout = 0


----------------------------------------------------------------------------
(* Properties of the snapshot (persistence.js, Hive.importData) *)

\* what the round trip is to reproduce of a cell and of a bee
CellView(c) ==
    <<c.state, c.contentAmount, c.isDirty, c.deadBeeCount, c.developmentTime,
      c.maxDevelopmentTime>>

BeeView(b) ==
    <<b.type, b.q, b.r, b.age, b.task, b.hasNectar, b.hasPollen, b.hasWater,
      b.hasFood, b.hasDeadBee>>

\* C11: a hive saved and imported into a new hive of the same config has the
\* same cell grid and the same bee roster, cargo flags included
RoundTrip ==
    lastCall.op = "import" =>
        /\ \A c \in DOMAIN cells : CellView(lastCall.restored.cells[c]) = CellView(cells[c])
        /\ Len(lastCall.restored.bees) = Len(bees)
        /\ \A k \in 1..Len(bees) : BeeView(lastCall.restored.bees[k]) = BeeView(bees[k])

----------------------------------------------------------------------------
(* Properties of one cell (cell.js) *)

\* the cell of the one-cell grid
TheCell == cells[CHOOSE c \in Cells : TRUE]

\* C12: feeding a hungry larva makes it LARVAE_FED and leaves developmentTime
\* alone; a fed larva stays LARVAE_FED until the update in which
\* developmentTime reaches maxDevelopmentTime, which makes it CAPPED_BROOD
\* with developmentTime 0 and maxDevelopmentTime the pupa duration
FedLarvaCapped ==
    /\ (lastCall.op = "feedLarvae" /\ lastCall.before.state = CellState.LARVAE_HUNGRY) =>
          TheCell = [lastCall.before EXCEPT !.state = CellState.LARVAE_FED]
    /\ (lastCall.op = "update" /\ lastCall.before.state = CellState.LARVAE_FED) =>
          IF lastCall.before.developmentTime + lastCall.arg >= lastCall.before.maxDevelopmentTime
          THEN TheCell = [lastCall.before EXCEPT !.state = CellState.CAPPED_BROOD,
                                                 !.developmentTime = 0,
                                                 !.maxDevelopmentTime = config.pupaDuration]
          ELSE /\ TheCell.state = CellState.LARVAE_FED
               /\ TheCell.developmentTime = lastCall.before.developmentTime + lastCall.arg

\* a larva fed just below maxDevelopmentTime has been capped by the next update
FedLarvaCappedWitness ==
    /\ lastCall.op = "update"
    /\ lastCall.before.state = CellState.LARVAE_FED
    /\ lastCall.before.developmentTime = lastCall.before.maxDevelopmentTime - 1
    /\ TheCell.state = CellState.CAPPED_BROOD
    /\ TheCell.maxDevelopmentTime = config.pupaDuration

\* C13: at the end of a Cell.update no cell is a HONEY cell with contentAmount
\* of 8 or more: such a cell is HONEY_COMPLETE by the end of the update in
\* which it first is one, the update that turns NECTAR into HONEY included
HoneyCompleteSameTick ==
    lastCall.op = "update" =>
        ~(TheCell.state = CellState.HONEY /\ TheCell.contentAmount >= 80)

\* clean() and removeDeadBee() called twice in a row
cleanTwice(c) == clean(clean(c))
removeDeadBeeTwice(c) == removeDeadBee(removeDeadBee(c))

\* clean() and removeDeadBee() called until the call returns false
RECURSIVE cleanUntilFalse(_)
cleanUntilFalse(c) == IF cleanReturns(c) THEN cleanUntilFalse(clean(c)) ELSE c

RECURSIVE removeDeadBeeUntilFalse(_)
removeDeadBeeUntilFalse(c) ==
    IF removeDeadBeeReturns(c) THEN removeDeadBeeUntilFalse(removeDeadBee(c)) ELSE c

\* clean() on a cell that is not dirty and removeDeadBee() on a cell without
\* a corpse return false and change nothing
FalseCallsChangeNothing ==
    /\ (lastCall.op = "clean" /\ ~lastCall.before.isDirty) =>
          lastCall.returned = "false" /\ TheCell = lastCall.before
    /\ (lastCall.op = "removeDeadBee" /\ lastCall.before.deadBeeCount = 0) =>
          lastCall.returned = "false" /\ TheCell = lastCall.before
    /\ ~TheCell.isDirty => clean(TheCell) = TheCell
    /\ TheCell.deadBeeCount = 0 => removeDeadBee(TheCell) = TheCell

\* C16 as stated: the false calls change nothing, and either method called
\* twice in a row leaves the cell as calling it until it first returns false
TwiceIsUntilFalse ==
    /\ FalseCallsChangeNothing
    /\ cleanTwice(TheCell) = cleanUntilFalse(TheCell)
    /\ removeDeadBeeTwice(TheCell) = removeDeadBeeUntilFalse(TheCell)

\* C16: the false calls change nothing; clean() twice in a row is clean()
\* until false; a removeDeadBee() that finds a corpse returns true and takes
\* exactly one away, so that twice in a row is until false on at most two
\* corpses only
TwiceIsUntilFalseUpToTwo ==
    /\ FalseCallsChangeNothing
    /\ cleanTwice(TheCell) = cleanUntilFalse(TheCell)
    /\ (lastCall.op = "removeDeadBee" /\ lastCall.before.deadBeeCount > 0) =>
          /\ lastCall.returned = "true"
          /\ TheCell = [lastCall.before EXCEPT !.deadBeeCount = @ - 1]
    /\ removeDeadBeeUntilFalse(TheCell).deadBeeCount = 0
    /\ (removeDeadBeeTwice(TheCell) = removeDeadBeeUntilFalse(TheCell))
          <=> TheCell.deadBeeCount <= 2

\* removeDeadBee() has returned false on a dirty cell whose corpses are gone,
\* where clean() still has something to do
TwiceIsUntilFalseWitness ==
    /\ lastCall.op = "removeDeadBee"
    /\ lastCall.returned = "false"
    /\ TheCell.deadBeeCount = 0
    /\ TheCell.isDirty
    /\ clean(TheCell) # TheCell

\* the states in which a cell holds nectar, honey, pollen or bee bread
SolidFoodStates ==
    {CellState.NECTAR, CellState.HONEY, CellState.HONEY_COMPLETE, CellState.HONEY_CAPPED,
     CellState.POLLEN, CellState.BEE_BREAD}

\* C17: contentAmount is between 0 and 10 in a cell of nectar, honey, pollen
\* or bee bread and between 0 and 5 in a cell of water, and no call other
\* than addNectar, addPollen and addWater leaves it higher than it found it
ContentBounded ==
    /\ TheCell.state \in SolidFoodStates =>
          0 <= TheCell.contentAmount /\ TheCell.contentAmount <= 100
    /\ TheCell.state = CellState.WATER =>
          0 <= TheCell.contentAmount /\ TheCell.contentAmount <= 50
    /\ lastCall.op \notin {"new", "addNectar", "addPollen", "addWater"} =>
          TheCell.contentAmount <= lastCall.before.contentAmount

\* C18: a cell with isDirty set is EMPTY: it holds neither brood nor food
\* until it has been cleaned
DirtyIsEmpty ==
    \A c \in Cells : cells[c].isDirty => isEmpty(cells[c])

----------------------------------------------------------------------------
(* Properties of the grid (utils.js) *)

\* the cells of the grid within one neighbour step of a cell of the set
OneStepFrom(reached) ==
    reached \cup {c \in Cells : \E a \in reached : c \in SeqToSet(getHexNeighbors(a))}

\* the number of neighbour steps after n that it takes to reach b from the set
RECURSIVE StepsFrom(_, _, _)
StepsFrom(reached, b, n) ==
    IF b \in reached THEN n ELSE StepsFrom(OneStepFrom(reached), b, n + 1)

\* the least number of neighbour steps from a to b on the free grid
HexSteps(a, b) == StepsFrom({a}, b, 0)

\* C20: distance(a, b) is the least number of neighbour steps from a to b
\* under getHexNeighbors, and so 1 for two neighbouring cells
DistanceIsHexSteps ==
    lastCall.op = "distance" =>
        lastCall.arg = HexSteps(lastCall.start, lastCall.end)

----------------------------------------------------------------------------
(* Properties of the bees' tasks (bee.js) *)

RECURSIVE SumCorpses(_, _)
SumCorpses(cs, k) ==
    IF k > Len(CellOrder) THEN 0
    ELSE cs[CellOrder[k]].deadBeeCount + SumCorpses(cs, k + 1)

\* the corpses in the hive: those lying in cells and those carried by bees
Corpses ==
    SumCorpses(cells, 1) + Cardinality({k \in 1..Len(bees) : bees[k].hasDeadBee})

\* the carriers of a corpse that the step leaves at an entrance without it,
\* or that are gone after the step
Disposers ==
    {k \in 1..Len(bees) :
        /\ bees[k].hasDeadBee
        /\ \A j \in 1..Len(bees') :
              bees'[j].id = bees[k].id =>
                  ~bees'[j].hasDeadBee /\ isEntranceCell(BeePos(bees'[j]))}

\* C21: the corpses lying in cells and carried by bees together become fewer
\* only by what carriers dispose of at an entrance: picking a corpse up moves
\* it from the cell to the bee
CorpsesLeaveAtEntrance ==
    [][Corpses - Corpses' <= Cardinality(Disposers)]_vars

\* the bee and the cells before the last call of cancelTask
CancelledBee == lastCall.before[Len(lastCall.before)].bee
CellsBeforeCancel == lastCall.before[Len(lastCall.before)].cells

\* the bee was an undertaker carrying a corpse when cancelTask was called
WasCarrying == CancelledBee.task = BeeTask.UNDERTAKING /\ CancelledBee.hasDeadBee

\* C22: cancelTask leaves the bee idle with no target, no next task and an
\* empty path; an undertaker carrying a corpse loses it, and exactly one
\* corpse is added to its cell unless that cell is an entrance; a second call
\* changes no cell and nothing of the bee but its timer
CancelIsIdempotent ==
    lastCall.op = "cancelTask" =>
        /\ bees[1].task = BeeTask.IDLE
        /\ bees[1].targetCell = NoCell
        /\ bees[1].nextTask = "none"
        /\ bees[1].path = << >>
        /\ WasCarrying =>
              /\ ~bees[1].hasDeadBee
              /\ cells = IF isEntranceCell(BeePos(CancelledBee))
                         THEN CellsBeforeCancel
                         ELSE [CellsBeforeCancel EXCEPT
                                  ![BeePos(CancelledBee)].deadBeeCount = @ + 1]
        /\ ~WasCarrying =>
              /\ cells = CellsBeforeCancel
              /\ bees[1].hasDeadBee = CancelledBee.hasDeadBee
        /\ Len(lastCall.before) = 2 =>
              /\ cells = CellsBeforeCancel
              /\ [bees[1] EXCEPT !.taskTimer = 0] = [CancelledBee EXCEPT !.taskTimer = 0]

\* cancelTask has been called twice on an undertaker that carried a corpse in
\* a cell that is no entrance: the corpse lies in that cell, once
CancelIsIdempotentWitness ==
    /\ lastCall.op = "cancelTask"
    /\ Len(lastCall.before) = 2
    /\ lastCall.before[1].bee.task = BeeTask.UNDERTAKING
    /\ lastCall.before[1].bee.hasDeadBee
    /\ ~isEntranceCell(BeePos(bees[1]))
    /\ cells[BeePos(bees[1])].deadBeeCount =
          lastCall.before[1].cells[BeePos(bees[1])].deadBeeCount + 1

\* the bee is in the carry phase of undertaking: it carries a corpse towards
\* an entrance
Carrying(b) ==
    /\ b.task = BeeTask.UNDERTAKING
    /\ b.hasDeadBee
    /\ b.targetCell # NoCell
    /\ isEntranceCell(b.targetCell)

\* C23: an undertaker in the carry phase keeps its task and its corpse until
\* it has disposed of the corpse at the entrance, unless its budget expires
\* or it dies: the periodic validation of the target does not cancel it
CarrierReachesEntrance ==
    [][\A k \in 1..Len(bees) :
          Carrying(bees[k]) =>
              \/ \A j \in 1..Len(bees') : bees'[j].id # bees[k].id
              \/ \E n \in 1..Len(lastCall'.timedOut) :
                    lastCall'.timedOut[n] = bees[k].id
              \/ \E j \in 1..Len(bees') :
                    /\ bees'[j].id = bees[k].id
                    /\ \/ Carrying(bees'[j])
                       \/ ~bees'[j].hasDeadBee /\ isEntranceCell(BeePos(bees'[j]))]_vars

\* the bees nursing the larva of cell c
Nurses(c) ==
    {k \in 1..Len(bees) : bees[k].task = BeeTask.NURSING /\ bees[k].targetCell = c}

\* C25: for every cell at most 2 bees have task Nursing with that cell as
\* target, whichever way they were given the task
TwoNursesPerLarva ==
    \A c \in DOMAIN cells : Cardinality(Nurses(c)) <= 2

\* C24: a bee that is outside the hive is foraging or collecting water and
\* its position is an entrance cell; a bee that is idle or has an indoor task
\* is inside
OutsideOnlyForaging ==
    \A k \in 1..Len(bees) :
        bees[k].isOutsideHive =>
            /\ bees[k].task \in {BeeTask.FORAGING, BeeTask.WATER_COLLECTION}
            /\ isEntranceCell(BeePos(bees[k]))

----------------------------------------------------------------------------
(* Properties of the storage cell search (hive.js) *)

\* the cell c is empty and fewer than 2 bees are storing food in it
Claimable(c) ==
    /\ isEmpty(cells[c])
    /\ Cardinality({k \in 1..Len(bees) :
          bees[k].task = BeeTask.STORING_FOOD /\ bees[k].targetCell = c}) < 2

\* C26: with the zoning toggle on and off, findAppropriateStorageCell returns
\* only an empty cell that fewer than 2 storing bees have as target, and
\* null exactly when there is no such cell
StorageCellClaimable ==
    lastCall.op = "findAppropriateStorageCell" =>
        IF \E c \in Cells : Claimable(c)
        THEN lastCall.end # NoCell /\ Claimable(lastCall.end)
        ELSE lastCall.end = NoCell

\* the same with the zoning toggle on
StorageCellClaimableZoned ==
    config.separateBroodAndHoney => StorageCellClaimable

----------------------------------------------------------------------------
(* Properties of the succession (hive.js) *)

EggCells == {c \in DOMAIN cells : cells[c].state = CellState.EGG}

\* createEmergencyQueen has just been called
SuccessionRan == lastCall.op = "createEmergencyQueen"

\* C27: createEmergencyQueen names a young larva at minimal distance from
\* the centre of the grid if there is one; otherwise the oldest egg, the egg
\* cell with the greatest developmentTime, if there is an egg; otherwise it
\* leaves emergencyQueenCell as it is
OldestEggSucceeds ==
    SuccessionRan =>
        IF YoungLarvae # {}
        THEN /\ emergencyQueenCell \in YoungLarvae
             /\ \A c \in YoungLarvae : CentreDist(emergencyQueenCell) <= CentreDist(c)
        ELSE IF EggCells # {}
             THEN /\ emergencyQueenCell \in EggCells
                  /\ \A c \in EggCells :
                        cells[c].developmentTime <= cells[emergencyQueenCell].developmentTime
             ELSE emergencyQueenCell = lastCall.start

----------------------------------------------------------------------------
(* Properties of the task budget (bee.js) *)

\* the bees whose task the timeout check of the step cancels, as they were
\* before the step: Bee.update makes the check before it changes the bee
TimedOutBees ==
    {k \in 1..Len(bees) :
        \E n \in 1..Len(lastCall'.timedOut) : lastCall'.timedOut[n] = bees[k].id}

\* C28: a task is cancelled for timeout only after its own budget.  A bee has
\* its task from the call of assignTask noted in lastTaskAssignTime, or from a
\* continuation later than it: when the timeout check cancels the task, the
\* budget setTaskTimeout gives its type has passed since that call
BudgetBeforeTimeout ==
    [][\A k \in TimedOutBees :
          simulationTime' - bees[k].lastTaskAssignTime
              >= TaskTimeoutOf(bees[k].task)]_vars

----------------------------------------------------------------------------
(* Properties of the egg counters (bee.js, hive.js) *)

\* the cells that come to hold an egg in the step: only setEgg makes an Egg
NewEggCells ==
    {c \in Cells : cells[c].state # CellState.EGG /\ cells'[c].state = CellState.EGG}

\* the eggs the queen among the bees bs has counted
QueenEggs(bs) ==
    LET k == CHOOSE n \in 1..Len(bs) : bs[n].id = queen
    IN  bs[k].eggsLaidTotal

\* the queen lives through the step
QueenLives ==
    /\ queen # 0 /\ queen' = queen
    /\ \E k \in 1..Len(bees) : bees[k].id = queen
    /\ \E k \in 1..Len(bees') : bees'[k].id = queen

\* C29: the queen's eggsLaidTotal and, within a day, the summary's eggsLaid
\* grow in a tick by the number of cells that turn from Empty to Egg in it
EggCountersFollowCells ==
    [][/\ QueenLives =>
            QueenEggs(bees') - QueenEggs(bees) = Cardinality(NewEggCells)
       /\ lastSummaryDay' = lastSummaryDay =>
            currentDaySummary'.eggsLaid - currentDaySummary.eggsLaid
                = Cardinality(NewEggCells)]_vars

----------------------------------------------------------------------------
(* Properties of the storing of food (bee.js, cell.js, hive.js) *)

\* what the add operations of the storing bees of a tick have added to the
\* contentAmount of their target cells, for one kind of food
RECURSIVE AddedToCells(_, _, _)
AddedToCells(log, food, k) ==
    IF k = 0 THEN 0
    ELSE AddedToCells(log, food, k - 1)
         + (IF log[k].food = food THEN log[k].added ELSE 0)

\* the summary the records of a tick are added to: a new one on a new day
SummaryOfTick ==
    IF lastSummaryDay' = lastSummaryDay THEN currentDaySummary
    ELSE NewSummary(currentDate')

\* no bee has the task Returning: only StoringFood bees unload in the tick
OnlyStoringRecords ==
    \A k \in 1..Len(bees) : bees[k].task # BeeTask.RETURNING

\* C30: the summary's nectarCollected, pollenCollected and waterCollected grow
\* in a tick by what the storing bees' add operations added to their cells
StoredAsRecorded ==
    [][OnlyStoringRecords =>
         LET log == lastCall'.stored
         IN  /\ currentDaySummary'.nectarCollected - SummaryOfTick.nectarCollected
                  = AddedToCells(log, "nectar", Len(log))
             /\ currentDaySummary'.pollenCollected - SummaryOfTick.pollenCollected
                  = AddedToCells(log, "pollen", Len(log))
             /\ currentDaySummary'.waterCollected - SummaryOfTick.waterCollected
                  = AddedToCells(log, "water", Len(log))]_vars

----------------------------------------------------------------------------
(* Properties of the food the bees carry (bee.js, cell.js) *)

\* C31: a bee that comes to carry food on completing CollectingFood has taken
\* half a unit from the cell it collected from
FoodIsTakenFromCell ==
    \A n \in 1..Len(lastCall.collected) : lastCall.collected[n].taken = 5

----------------------------------------------------------------------------
(* Properties of the content of the cells (cell.js) *)

\* C32: a cell in a food state holds food (contentAmount > 0, which NaN is
\* not), and a cell that is Empty or holds brood has contentAmount 0
FoodCellsHoldFood ==
    \A c \in DOMAIN cells :
        /\ isFood(cells[c]) =>
              cells[c].contentAmount # NaN /\ cells[c].contentAmount > 0
        /\ (isEmpty(cells[c]) \/ isBrood(cells[c])) => cells[c].contentAmount = 0

----------------------------------------------------------------------------
(* Properties of the emergence and the death of bees (hive.js) *)

\* the cells whose Cell.update returns "emerge" in a tick of deltaTime
EmergeSignals(deltaTime) ==
    {c \in Cells : /\ cells[c].state = CellState.CAPPED_BROOD
                   /\ CellUpdateBrood(cells[c], deltaTime).emerge}

\* the step is a tick that ran its phases: valid arguments and bees to update
TickRan == lastCall'.op = "update" /\ lastCall'.valid /\ Len(bees) > 0

\* the cell of an emergence after the tick: Empty with both timers at 0, unless
\* a bee of the same tick has laid an egg or stored food in the emptied cell
EmptiedCell(c) ==
    \/ isEmpty(c) /\ c.developmentTime = 0 /\ c.maxDevelopmentTime = 0
    \/ c.state = CellState.EGG /\ c.developmentTime = 0
    \/ isFood(c) /\ c.developmentTime = 0 /\ c.maxDevelopmentTime = 0

\* C33: every emerge signal of a tick adds one bee at its cell, a Queen if
\* and only if the cell is emergencyQueenCell (which is then cleared, and
\* hive.queen is the new bee), empties the cell and counts one bee hatched
EmergenceMaterializes ==
    [][TickRan =>
         LET log == lastCall'.emerged
         IN  /\ {log[n].cell : n \in 1..Len(log)} = EmergeSignals(lastCall'.arg)
             /\ Len(log) = Cardinality(EmergeSignals(lastCall'.arg))
             /\ Len(bees') = Len(bees) + Len(log) - Len(lastCall'.died)
             /\ currentDaySummary'.beesHatched - SummaryOfTick.beesHatched = Len(log)
             /\ \A n \in 1..Len(log) :
                   /\ Cardinality({k \in 1..Len(bees') :
                         /\ bees'[k].id = log[n].id
                         /\ bees'[k].type = log[n].type
                         /\ BeePos(bees'[k]) = log[n].cell}) = 1
                   /\ log[n].type = BeeType.QUEEN <=> log[n].cell = emergencyQueenCell
                   /\ log[n].type = BeeType.QUEEN =>
                         queen' = log[n].id /\ emergencyQueenCell' = NoCell
                   /\ EmptiedCell(cells'[log[n].cell])]_vars

\* a tick in which a bee has emerged and left its cell empty: a worker beside
\* the living queen, or the queen raised in emergencyQueenCell
EmergenceMaterializesWitness ==
    /\ lastCall.op = "update"
    /\ \E n \in 1..Len(lastCall.emerged) :
          /\ isEmpty(cells[lastCall.emerged[n].cell])
          /\ queen # 0
          /\ currentDaySummary.beesHatched > 0

\* the bees of the state before the tick that die in it, and the others
DiedIds == {lastCall'.died[n].id : n \in 1..Len(lastCall'.died)}
EmergedIds == {lastCall'.emerged[n].id : n \in 1..Len(lastCall'.emerged)}
Dying == {k \in 1..Len(bees) : bees[k].id \in DiedIds}
Surviving == {k \in 1..Len(bees) : bees[k].id \notin DiedIds}

\* Bee.update returns "died" for bee b: it must at its age, or it may as a
\* very old forager outside
MustDie(b, deltaTime) == b.age + deltaTime >= b.maxAge
MayDie(b, deltaTime) ==
    \/ MustDie(b, deltaTime)
    \/ /\ 20 * (b.age + deltaTime) > 19 * b.maxAge
       /\ b.task = BeeTask.FORAGING /\ b.isOutsideHive /\ b.type = BeeType.WORKER

\* the corpses a dying bee leaves in cell c: itself and the one it carries,
\* inside the hive and off the entrance
CorpsesLeft(b, c) ==
    IF BeePos(b) = c /\ ~isEntranceCell(c)
       /\ ~(b.isOutsideHive /\ b.type = BeeType.WORKER)
    THEN IF b.hasDeadBee THEN 2 ELSE 1
    ELSE 0

RECURSIVE SumCorpsesLeft(_, _)
SumCorpsesLeft(ks, c) ==
    IF ks = {} THEN 0
    ELSE LET k == CHOOSE x \in ks : TRUE
         IN  CorpsesLeft(bees[k], c) + SumCorpsesLeft(ks \ {k}, c)

\* no surviving bee moves corpses in the tick: none is undertaking or carrying
NoUndertaker ==
    \A k \in Surviving : bees[k].task # BeeTask.UNDERTAKING /\ ~bees[k].hasDeadBee

----------------------------------------------------------------------------
(* Properties of the entrance cells (hive.js, bee.js) *)

\* C35: after every update made with valid arguments and a bee in the hive no
\* entrance cell holds a corpse: the cleanup empties the entrances and neither
\* a death, nor a cancelled undertaking, nor a completed one leaves one there
EntrancesHoldNoCorpse ==
    [][TickRan => \A c \in Cells : isEntranceCell(c) => cells'[c].deadBeeCount = 0]_vars

\* a bee has died inside the hive on an entrance cell
EntrancesHoldNoCorpseWitness ==
    /\ lastCall.op = "update"
    /\ lastCall.valid
    /\ \E n \in 1..Len(lastCall.died) :
          /\ isEntranceCell(lastCall.died[n].cell)
          /\ ~lastCall.died[n].outside
          /\ cells[lastCall.died[n].cell].deadBeeCount = 0

----------------------------------------------------------------------------
(* Properties of the brood (cell.js, hive.js) *)

\* the time an egg needs at most from the first tick on: a larva nobody feeds
\* takes twice larvaeDuration
BroodTime == BroodConfig.eggDuration + 2 * BroodConfig.larvaeDuration
                + BroodConfig.pupaDuration

\* the eggs seen up to BroodHorizon have the time to emerge within the run
BroodHorizon == MaxBroodTime - BroodTime

\* the cells of the grid of the brood run
BroodGrid == (0..(BroodConfig.columns - 1)) \X (0..(BroodConfig.rows - 1))

\* the tick has let a bee emerge from cell c
EmergedFrom(c) ==
    /\ lastCall.op = "update"
    /\ \E n \in 1..Len(lastCall.emerged) : lastCall.emerged[n].cell = c

\* a tick on a hungry larva: it is capped when its timer, advanced by half of
\* deltaTime, reaches maxDevelopmentTime; else it has aged by half of
\* deltaTime, as a hungry larva or as the fed larva a nurse of the same tick
\* has made of it
HungryLarvaTick(c) ==
    LET before == cells[c]
        after == cells'[c]
        deltaTime == lastCall'.arg
    IN  IF 2 * before.developmentTime + deltaTime >= 2 * before.maxDevelopmentTime
        THEN /\ after.state = CellState.CAPPED_BROOD
             /\ after.developmentTime = 0
             /\ after.maxDevelopmentTime = config.pupaDuration
        ELSE /\ after.state \in {CellState.LARVAE_HUNGRY, CellState.LARVAE_FED}
             /\ 2 * after.developmentTime = 2 * before.developmentTime + deltaTime
             /\ after.maxDevelopmentTime = before.maxDevelopmentTime

\* C36: a hungry larva ages by deltaTime/2 in a Cell.update and is capped
\* directly when its timer expires; and while ticks go on every egg comes to
\* emerge, fed or not, unless the hive loses its last bee
EveryEggEmerges ==
    /\ [][TickRan => \A c \in Cells :
             cells[c].state = CellState.LARVAE_HUNGRY => HungryLarvaTick(c)]_vars
    /\ \A c \in BroodGrid :
          (cells[c].state = CellState.EGG /\ simulationTime <= BroodHorizon)
             ~> (EmergedFrom(c) \/ Len(bees) = 0)

\* a bee has emerged from the cell of the egg after the time that a fresh egg
\* takes when nobody feeds the larva
EveryEggEmergesWitness ==
    /\ EmergedFrom(LarvaCell)
    /\ simulationTime = BroodTime
    /\ Len(bees) > 0

----------------------------------------------------------------------------
(* Properties of the movement of the bees (bee.js) *)

\* C37: every bee stands on a cell of the grid, and a bee in flight is heading
\* for a hex neighbour of the cell it has left
BeesStepToNeighbours ==
    \A k \in 1..Len(bees) :
        /\ BeePos(bees[k]) \in Cells
        /\ bees[k].moveProgress < 4 =>
              /\ <<bees[k].targetQ, bees[k].targetR>> \in Cells
              /\ <<bees[k].targetQ, bees[k].targetR>>
                    \in SeqToSet(getHexNeighbors(BeePos(bees[k])))

\* a bee with a task is in flight on the first step of a longer path
BeesStepToNeighboursWitness ==
    \E k \in 1..Len(bees) :
        /\ bees[k].moveProgress < 4
        /\ bees[k].task # BeeTask.IDLE
        /\ Len(bees[k].path) > 0
        /\ <<bees[k].targetQ, bees[k].targetR>> # bees[k].targetCell

----------------------------------------------------------------------------
(* Properties of the succession (hive.js) *)

\* the step lets a Queen emerge
QueenEmerges ==
    /\ TickRan
    /\ \E n \in 1..Len(lastCall'.emerged) : lastCall'.emerged[n].type = BeeType.QUEEN

\* C38: emergencyQueenCell is set only while the hive has no Queen: no tick
\* sets it while a Queen lives, and the tick in which the new Queen emerges
\* clears it
QueenCellOnlyWithoutQueen ==
    /\ [](emergencyQueenCell # NoCell => queen = 0)
    /\ [][QueenEmerges => emergencyQueenCell' = NoCell /\ queen' # 0]_vars
    /\ [][queen # 0 /\ queen' # 0 => emergencyQueenCell' = NoCell]_vars

\* the new Queen has emerged from the cell that was named, which is named no
\* longer
QueenCellOnlyWithoutQueenWitness ==
    /\ lastCall.op = "update"
    /\ \E n \in 1..Len(lastCall.emerged) :
          /\ lastCall.emerged[n].type = BeeType.QUEEN
          /\ lastCall.emerged[n].id = queen
    /\ emergencyQueenCell = NoCell

----------------------------------------------------------------------------
(* Properties of the A* search (hive.js, utils.js) *)

\* the cells within n neighbour steps of cell a in the grid
RECURSIVE Within(_, _)
Within(a, n) ==
    IF n = 0 THEN {a}
    ELSE LET near == Within(a, n - 1)
         IN  near \cup {c \in Cells : \E d \in near : c \in SeqToSet(getHexNeighbors(d))}

\* the least number of neighbour steps from a to b in the grid
StepsBetween(a, b) ==
    CHOOSE n \in 0..Cardinality(Cells) :
        /\ b \in Within(a, n)
        /\ n > 0 => b \notin Within(a, n - 1)

\* path leads from start to end over cells of the grid by neighbour steps
IsRoute(path, start, end) ==
    /\ Len(path) > 0
    /\ path[1] = start
    /\ path[Len(path)] = end
    /\ \A k \in 1..Len(path) : path[k] \in Cells
    /\ \A k \in 1..(Len(path) - 1) : path[k + 1] \in SeqToSet(getHexNeighbors(path[k]))

\* C39: with preferEmpty false and no full cell the path a search returns
\* leads from start to end in the least number of neighbour steps
SearchFindsShortest ==
    (lastCall.op = "findPath" /\ lastCall.arg = FALSE /\ ~lastCall.hit) =>
        /\ IsRoute(lastCall.path, lastCall.start, lastCall.end)
        /\ Len(lastCall.path) - 1 = StepsBetween(lastCall.start, lastCall.end)

\* a search has returned a path of four steps past a cell on which a bee stands
SearchFindsShortestWitness ==
    /\ lastCall.op = "findPath"
    /\ lastCall.arg = FALSE
    /\ ~lastCall.hit
    /\ Len(lastCall.path) = 5
    /\ \E k \in 1..Len(lastCall.path) : isOccupied(cells[lastCall.path[k]])

----------------------------------------------------------------------------
(* Properties of the path cache (performance-optimizer.js) *)

\* the keys held by a cache
KeysOf(cache) == {cache[k].key : k \in 1..Len(cache)}

\* the keys a Map holds after the set calls of hist, each with the number of
\* the call that inserted it: a full Map first loses the key inserted
\* earliest, a key that is present keeps its place, a new key comes last
RECURSIVE InsertedAt(_)
InsertedAt(hist) ==
    IF hist = << >> THEN {}
    ELSE LET n == Len(hist)
             prev == InsertedAt(SubSeq(hist, 1, n - 1))
             oldest == CHOOSE e \in prev : \A f \in prev : e.at <= f.at
             kept == IF Cardinality(prev) >= PathCacheSize /\ prev # {}
                     THEN prev \ {oldest} ELSE prev
         IN  IF \E e \in kept : e.key = hist[n] THEN kept
             ELSE kept \cup {[key |-> hist[n], at |-> n]}

\* the step stores a path under a key the full cache does not hold
SetsNewKeyOnFull ==
    /\ lastCall'.op = "set"
    /\ Len(pathCache) >= PathCacheSize
    /\ getKey(lastCall'.start, lastCall'.end) \notin KeysOf(pathCache)

\* C40: the cache never holds more than maxSize entries; a set call for a
\* new key on a full cache evicts the entry inserted earliest and no other;
\* and a get call that follows a set call for the same route returns the
\* path just stored
CacheBoundedOldestOut ==
    /\ [](Len(pathCache) <= PathCacheSize)
    /\ [][SetsNewKeyOnFull =>
            LET held == InsertedAt(lastCall.restored)
                oldest == CHOOSE e \in held : \A f \in held : e.at <= f.at
            IN  /\ {e.key : e \in held} = KeysOf(pathCache)
                /\ KeysOf(pathCache') =
                      (KeysOf(pathCache) \ {oldest.key})
                         \cup {getKey(lastCall'.start, lastCall'.end)}
                /\ \A k \in 1..Len(pathCache) :
                      pathCache[k].key # oldest.key =>
                         CacheGet(pathCache', pathCache[k].key[1], pathCache[k].key[2])
                            = pathCache[k].path]_vars
    /\ [][(/\ lastCall.op = "set" /\ lastCall'.op = "get"
           /\ lastCall'.start = lastCall.start /\ lastCall'.end = lastCall.end)
             => lastCall'.path = lastCall.path]_vars

\* a set call for a new route has pushed the oldest entry out of the full
\* cache: the cache is full, and the route stored first is no longer in it
CacheBoundedOldestOutWitness ==
    /\ lastCall.op = "set"
    /\ Len(pathCache) = PathCacheSize
    /\ Len(lastCall.restored) > PathCacheSize
    /\ lastCall.restored[1] \notin KeysOf(pathCache)
    /\ pathCache[Len(pathCache)].key = getKey(lastCall.start, lastCall.end)

====
